---- MODULE Spec2Model ----
(***************************************************************************)
(* Model of the drone telemetry simulator (lib/auto-simulator.ts, kept as  *)
(* src/unnamed/part_000), the override registry (src/unnamed/part_001) and *)
(* the admin drone-control route.                                          *)
(*                                                                         *)
(* Number representation (the source computes in IEEE doubles):            *)
(*   battery      hundredths of a percent   (85.00 % = 8500)               *)
(*   lat, lng     1e-5 degree               (-1.2921 = -129210); a drone   *)
(*                                           under way also carries its    *)
(*                                           exact place on its leg        *)
(*   random draw  thousandths               (Math.random() < 0.10 is       *)
(*                                           draw < 100)                   *)
(*   time         units of 5 minutes        (5 * 60 * 1000 ms = 1)         *)
(***************************************************************************)
EXTENDS Integers, Sequences, FiniteSets, TLC

VARIABLES
    now,          \* wall clock read by new Date() / Date.now()
    isRunning,    \* AutoDroneSimulator.isRunning
    interval,     \* AutoDroneSimulator.interval: 0 is null, else a timer id
    timers,       \* timer ids armed by setInterval and not yet cleared
    profiles,     \* AutoDroneSimulator.profiles: drone id -> DroneProfile
    simStates,    \* part_000's module variable droneStates: "null", "shared"
                  \* (the registry) or "private" (its own empty map)
    registry,     \* the droneStates map of const.ts: drone id -> entry
    starts,       \* start() calls suspended at an await: call id -> position
    inflight,     \* the batches of the driver's insertMany calls not yet settled
    dbEmpty,      \* Telemetry.countDocuments() would return 0
    posts,        \* admin POST requests suspended at an await
    ticks,        \* number of ticks run so far
    obs           \* marks a start() or stop() call that returned at once

vars == <<now, isRunning, interval, timers, profiles, simStates, registry,
          starts, inflight, dbEmpty, posts, ticks, obs>>

----------------------------------------------------------------------------
(* Bounds of the exploration *)

MaxTime == 2
MaxTicks == 2
MaxTimers == 2
MaxInflight == 2
MaxPosts == 1
MaxMissionTicks == 5
MaxMissions == 1

----------------------------------------------------------------------------
(* Arithmetic helpers *)

Undefined == -1000

Min(a, b) == IF a < b THEN a ELSE b

Max(a, b) == IF a > b THEN a ELSE b

Abs(a) == IF a < 0 THEN -a ELSE a

\* Math.round(n / d) for d > 0: the nearest integer, a half goes up
RoundDiv(n, d) == (2 * n + d) \div (2 * d)

RECURSIVE SqrtSearch(_, _, _)
SqrtSearch(n, lo, hi) ==
    IF lo >= hi THEN lo
    ELSE LET mid == (lo + hi + 1) \div 2
         IN  IF mid * mid <= n THEN SqrtSearch(n, mid, hi)
             ELSE SqrtSearch(n, lo, mid - 1)

\* floor(Math.sqrt(n)) for 0 <= n < 2^30
ISqrt(n) == SqrtSearch(n, 0, 32767)

\* Whole numbers above 2^31, for the products the geometry compares: six
\* digits to the base 10^4, the lowest first (numbers below 10^24)
Base == 10000

\* 0 <= n < 2^31 as a wide number
Wide(n) == <<n % Base, (n \div Base) % Base, n \div (Base * Base), 0, 0, 0>>

\* the digits of the number whose column sums are s, from column i on
RECURSIVE WideCarry(_, _, _)
WideCarry(s, i, carry) ==
    IF i > Len(s) THEN <<>>
    ELSE <<(s[i] + carry) % Base>>
         \o WideCarry(s, i + 1, (s[i] + carry) \div Base)

\* x * y for a wide number x and a wide number y below 10^12 (the upper three
\* digits of y are 0), the product below 10^24
WideMul(x, y) ==
    WideCarry(<<x[1] * y[1],
                x[2] * y[1] + x[1] * y[2],
                x[3] * y[1] + x[2] * y[2] + x[1] * y[3],
                x[4] * y[1] + x[3] * y[2] + x[2] * y[3],
                x[5] * y[1] + x[4] * y[2] + x[3] * y[3],
                x[6] * y[1] + x[5] * y[2] + x[4] * y[3]>>, 1, 0)

\* x * x for a wide number x below 10^12
SquareOf(x) == WideMul(x, x)

\* the order of the wide numbers x and y on their digits from i down:
\* -1 for x < y, 0 for x = y, 1 for x > y
RECURSIVE WideOrder(_, _, _)
WideOrder(x, y, i) ==
    IF i = 0 THEN 0
    ELSE IF x[i] < y[i] THEN -1
    ELSE IF x[i] > y[i] THEN 1
    ELSE WideOrder(x, y, i - 1)

WideCompare(x, y) == WideOrder(x, y, 6)

\* (a * b)^2 for 0 <= a, b < 2^31 and a * b < 10^12
WideSquare(a, b) == SquareOf(WideMul(Wide(a), Wide(b)))

----------------------------------------------------------------------------
(* Static configuration: initializeProfiles and destinations *)

AllDrones == {"A1", "A2", "B1", "B2"}

DroneOrder == <<"A1", "A2", "B1", "B2">>

Config(id) ==
    CASE id = "A1" -> [baseLocation |-> [lat |-> -129210, lng |-> 3682190],
                       batteryDecayRate |-> 80, maxSpeed |-> 65,
                       operatingAltitude |-> 150]
      [] id = "A2" -> [baseLocation |-> [lat |-> -130320, lng |-> 3683560],
                       batteryDecayRate |-> 70, maxSpeed |-> 70,
                       operatingAltitude |-> 180]
      [] id = "B1" -> [baseLocation |-> [lat |-> -127450, lng |-> 3680980],
                       batteryDecayRate |-> 90, maxSpeed |-> 60,
                       operatingAltitude |-> 120]
      [] id = "B2" -> [baseLocation |-> [lat |-> -131670, lng |-> 3688330],
                       batteryDecayRate |-> 60, maxSpeed |-> 75,
                       operatingAltitude |-> 200]

\* this.destinations; destination 0 stands for undefined
destinations ==
    <<[lat |-> -125000, lng |-> 3678330, name |-> "Karen Hospital"],
      [lat |-> -135000, lng |-> 3691670, name |-> "Machakos Hospital"],
      [lat |-> -116670, lng |-> 3680000, name |-> "Kiambu Medical Center"],
      [lat |-> -140000, lng |-> 3695000, name |-> "Athi River Clinic"],
      [lat |-> -120000, lng |-> 3675000, name |-> "Limuru Health Center"]>>

NoDestination == 0

Phases == {"idle", "preparing", "flying", "delivering", "returning"}

\* one entry of initialProfiles.forEach: the profile as constructed, with
\* 85 + Math.random() * 15 given as battery
NewProfile(id, battery) ==
    [id |-> id,
     baseLocation |-> Config(id).baseLocation,
     batteryDecayRate |-> Config(id).batteryDecayRate,
     maxSpeed |-> Config(id).maxSpeed,
     operatingAltitude |-> Config(id).operatingAltitude,
     currentBattery |-> battery,
     currentLocation |-> Config(id).baseLocation,
     missionPhase |-> "idle",
     missionStartTime |-> Undefined,
     destination |-> NoDestination]

----------------------------------------------------------------------------
(* Geometry: calculateDistance and moveTowardsDestination.                 *)
(*                                                                         *)
(* A drone moves along the straight line from the point where it set out  *)
(* to the point it heads for, by degreeStep at a time, so its position is *)
(* not a point of the 1e-5 degree grid. A location is either a grid point *)
(* [lat, lng] or a position on a leg, [lat, lng, from, to, along]: the    *)
(* point along / 999 units from the grid point `from` on the line to the  *)
(* grid point `to`, with lat and lng that point rounded to the grid.      *)

Point(p) == [lat |-> p.lat, lng |-> p.lng]

\* same latitude and longitude
SamePlace(a, b) == a.lat = b.lat /\ a.lng = b.lng

OnLeg(location) == "along" \in DOMAIN location

DistanceSquared(point1, point2) ==
    LET latDiff == point2.lat - point1.lat
        lngDiff == point2.lng - point1.lng
    IN  latDiff * latDiff + lngDiff * lngDiff

\* degreeStep = speed * (20 / 3600) / 111 degrees is speed * 5000 / 999 units
\* of 1e-5 degree; this is 999 * degreeStep
DegreeStep999(maxSpeed) == maxSpeed * 5000

\* along / 999 >= the length of the leg, decided on the squares
LegCovered(from, to, along) ==
    WideCompare(WideSquare(along, 1),
                WideMul(Wide(999 * 999), Wide(DistanceSquared(from, to)))) >= 0

\* |Math.round(diff * (along / 999) / totalDistance)|, searched upwards from
\* m, which is not above it: the nearest whole unit, a half going up. It is
\* the least m with |diff| * (along / 999) / totalDistance below m + 1/2 for
\* a diff that is not negative, and at most m + 1/2 for a negative one;
\* squared is totalDistance^2 and the comparison is made on the squares
RECURSIVE ShareMagnitude(_, _, _, _)
ShareMagnitude(diff, along, squared, m) ==
    IF WideCompare(WideSquare(2 * along, Abs(diff)),
                   WideMul(SquareOf(Wide(999 * (2 * m + 1))), Wide(squared)))
       < (IF diff >= 0 THEN 0 ELSE 1)
    THEN m
    ELSE ShareMagnitude(diff, along, squared, m + 1)

\* the part of diff covered after along / 999 units of the leg, as the whole
\* unit nearest to it
LegShare(diff, along, squared) ==
    (IF diff >= 0 THEN 1 ELSE -1)
    * ShareMagnitude(diff, along, squared,
                     ((along \div 999) * Abs(diff)) \div (ISqrt(squared) + 1))

\* the position along / 999 units from `from` on the line to `to`
LegPlace(from, to, along) ==
    [lat |-> from.lat
             + LegShare(to.lat - from.lat, along, DistanceSquared(from, to)),
     lng |-> from.lng
             + LegShare(to.lng - from.lng, along, DistanceSquared(from, to)),
     from |-> from, to |-> to, along |-> along]

\* the position on the leg after a step: Math.min(degreeStep /
\* totalDistance, 1) puts the drone on the end of the leg it heads for when
\* the step would pass it
LegPosition(from, to, along) ==
    IF along <= 0 THEN from
    ELSE IF LegCovered(from, to, along) THEN to
    ELSE LegPlace(from, to, along)

\* Two grid points a whole number of units apart: the offsets <<lat, lng>>
\* from a base or a destination of the grid points at exactly limit units
\* from it for which Math.sqrt(latDiff * latDiff + lngDiff * lngDiff), in
\* doubles on the coordinates as the decimal numbers they are, comes out
\* below limit / 1e5. (For the others at that distance it comes out equal or
\* above; at any other whole squared distance the doubles decide as the
\* whole numbers do.)
RoundsBelow(point, limit) ==
    CASE SamePlace(point, destinations[1]) /\ limit = 500 ->
           {<<-500, 0>>, <<-480, -140>>, <<-468, -176>>, <<-300, -400>>,
            <<-140, -480>>, <<0, -500>>, <<140, -480>>, <<300, -400>>,
            <<468, -176>>, <<480, -140>>, <<500, 0>>}
      [] SamePlace(point, destinations[2]) /\ limit = 500 ->
           {<<-500, 0>>, <<-480, -140>>, <<-468, -176>>, <<-300, -400>>,
            <<-300, 400>>, <<-140, -480>>, <<0, -500>>, <<140, -480>>,
            <<300, -400>>, <<300, 400>>, <<468, -176>>, <<480, -140>>}
      [] SamePlace(point, destinations[3]) /\ limit = 500 ->
           {<<-500, 0>>, <<-480, -140>>, <<-468, -176>>, <<-300, -400>>,
            <<-140, -480>>, <<0, -500>>, <<140, -480>>, <<300, -400>>,
            <<468, -176>>, <<480, -140>>}
      [] SamePlace(point, destinations[4]) /\ limit = 500 ->
           {<<-480, 140>>, <<-468, 176>>, <<-300, 400>>, <<-140, 480>>,
            <<0, 500>>, <<140, 480>>, <<300, 400>>, <<468, 176>>,
            <<480, 140>>, <<500, 0>>}
      [] SamePlace(point, destinations[5]) /\ limit = 500 ->
           {<<-480, -140>>, <<-480, 140>>, <<-468, -176>>, <<-468, 176>>,
            <<-300, -400>>, <<-300, 400>>, <<300, -400>>, <<300, 400>>,
            <<468, -176>>, <<468, 176>>, <<480, -140>>, <<480, 140>>,
            <<500, 0>>}
      [] SamePlace(point, Config("A1").baseLocation) /\ limit = 500 ->
           {<<-500, 0>>, <<-480, -140>>, <<-468, -176>>, <<-468, 176>>,
            <<-300, -400>>, <<-300, 400>>, <<-140, -480>>, <<140, -480>>,
            <<300, -400>>, <<300, 400>>, <<468, -176>>, <<468, 176>>,
            <<480, -140>>}
      [] SamePlace(point, Config("A2").baseLocation) /\ limit = 500 ->
           {<<-480, -140>>, <<-468, -176>>, <<-468, 176>>, <<-300, -400>>,
            <<-300, 400>>, <<-140, -480>>, <<140, -480>>, <<300, -400>>,
            <<300, 400>>, <<468, -176>>, <<468, 176>>, <<480, -140>>,
            <<500, 0>>}
      [] SamePlace(point, Config("B1").baseLocation) /\ limit = 500 ->
           {<<-480, 140>>, <<-468, 176>>, <<-300, 400>>, <<-140, 480>>,
            <<0, 500>>, <<140, 480>>, <<300, 400>>, <<468, 176>>,
            <<480, 140>>, <<500, 0>>}
      [] SamePlace(point, Config("B2").baseLocation) /\ limit = 500 ->
           {<<-480, -140>>, <<-468, -176>>, <<-300, -400>>, <<-140, -480>>,
            <<0, -500>>, <<140, -480>>, <<300, -400>>, <<468, -176>>,
            <<480, -140>>, <<500, 0>>}
      [] SamePlace(point, destinations[1]) /\ limit = 200 ->
           {<<-192, -56>>, <<-192, 56>>, <<-160, -120>>, <<-120, -160>>,
            <<-56, -192>>, <<0, -200>>, <<56, -192>>, <<120, -160>>,
            <<160, -120>>, <<192, -56>>, <<192, 56>>}
      [] SamePlace(point, destinations[2]) /\ limit = 200 ->
           {<<-192, -56>>, <<-192, 56>>, <<-160, -120>>, <<-120, -160>>,
            <<-56, -192>>, <<-56, 192>>, <<0, -200>>, <<56, -192>>,
            <<56, 192>>, <<120, -160>>, <<160, -120>>}
      [] SamePlace(point, destinations[3]) /\ limit = 200 ->
           {<<-192, -56>>, <<-192, 56>>, <<-160, -120>>, <<-120, -160>>,
            <<-56, -192>>, <<0, -200>>, <<56, -192>>, <<120, -160>>,
            <<160, -120>>}
      [] SamePlace(point, destinations[4]) /\ limit = 200 ->
           {<<-160, 120>>, <<-120, 160>>, <<-56, 192>>, <<0, 200>>,
            <<56, 192>>, <<120, 160>>, <<160, 120>>, <<192, -56>>,
            <<192, 56>>}
      [] SamePlace(point, destinations[5]) /\ limit = 200 ->
           {<<-160, -120>>, <<-160, 120>>, <<-56, -192>>, <<-56, 192>>,
            <<56, -192>>, <<56, 192>>, <<160, -120>>, <<160, 120>>,
            <<192, -56>>, <<192, 56>>}
      [] SamePlace(point, Config("A1").baseLocation) /\ limit = 200 ->
           {<<-192, -56>>, <<-192, 56>>, <<-160, -120>>, <<-160, 120>>,
            <<-120, -160>>, <<-56, -192>>, <<-56, 192>>, <<56, -192>>,
            <<56, 192>>, <<120, -160>>, <<160, -120>>, <<160, 120>>,
            <<192, -56>>, <<192, 56>>}
      [] SamePlace(point, Config("A2").baseLocation) /\ limit = 200 ->
           {<<-160, -120>>, <<-160, 120>>, <<-120, -160>>, <<-56, -192>>,
            <<-56, 192>>, <<56, -192>>, <<56, 192>>, <<120, -160>>,
            <<160, -120>>, <<160, 120>>, <<192, -56>>, <<192, 56>>}
      [] SamePlace(point, Config("B1").baseLocation) /\ limit = 200 ->
           {<<-160, 120>>, <<-120, 160>>, <<-56, 192>>, <<0, 200>>,
            <<56, 192>>, <<120, 160>>, <<160, 120>>, <<192, -56>>,
            <<192, 56>>}
      [] SamePlace(point, Config("B2").baseLocation) /\ limit = 200 ->
           {<<-192, -56>>, <<-192, 56>>, <<-160, -120>>, <<-120, -160>>,
            <<-56, -192>>, <<-56, 192>>, <<0, -200>>, <<56, -192>>,
            <<56, 192>>, <<120, -160>>, <<160, -120>>, <<192, -56>>,
            <<192, 56>>}
      [] OTHER -> {}

\* calculateDistance(location, point) < limit, limit in whole units: exact
\* for a position on a leg measured to either end of the leg, and as the
\* doubles give it for two grid points
DistanceBelow(location, point, limit) ==
    IF OnLeg(location) /\ SamePlace(point, location.to)
    THEN \* the rest of the leg: its length - along / 999
         WideCompare(WideMul(Wide(999 * 999),
                             Wide(DistanceSquared(location.from, location.to))),
                     WideSquare(999 * limit + location.along, 1)) < 0
    ELSE IF OnLeg(location) /\ SamePlace(point, location.from)
    THEN location.along < 999 * limit
    ELSE IF DistanceSquared(location, point) = limit * limit
    THEN \/ <<location.lat - point.lat, location.lng - point.lng>>
              \in RoundsBelow(point, limit)
         \/ <<point.lat - location.lat, point.lng - location.lng>>
              \in RoundsBelow(location, limit)
    ELSE DistanceSquared(location, point) < limit * limit

\* the leg a drone at location is on when it heads for destination: the leg
\* it is on already, forwards or back to where the leg began, or a new leg
\* from the grid point it stands on
LegOf(location, destination) ==
    IF OnLeg(location) /\ SamePlace(destination, location.to)
    THEN [from |-> location.from, to |-> location.to,
          along |-> location.along, forward |-> 1]
    ELSE IF OnLeg(location) /\ SamePlace(destination, location.from)
    THEN [from |-> location.from, to |-> location.to,
          along |-> location.along, forward |-> -1]
    ELSE [from |-> Point(location), to |-> Point(destination),
          along |-> 0, forward |-> 1]

\* mutant: the drone does not move
MoveNever(location, maxSpeed, destination) == location

\* mutant: the step ratio is not capped at 1
MoveNoCap(location, maxSpeed, destination) ==
    LET degreeStep == DegreeStep999(maxSpeed)
    IN  IF OnLeg(location) /\ SamePlace(destination, location.to)
        THEN IF LegCovered(location.from, location.to, location.along)
             THEN LegPlace(location.from, location.to,
                           location.along - degreeStep)
             ELSE LegPlace(location.from, location.to,
                           location.along + degreeStep)
        ELSE IF SamePlace(location, destination)
             THEN location
             ELSE LegPlace(Point(location), Point(destination), degreeStep)

\* moveTowardsDestination: the new currentLocation. totalDistance is the
\* rest of the leg when the drone goes on along its leg, along / 999 when it
\* goes back to where the leg began, and the distance between the two grid
\* points when it sets out from one; with totalDistance = 0 the drone stays.
\* (A position on a leg is taken at its lat and lng when the drone heads for
\* a third point, which the simulator never asks for: a drone leaves the
\* line between its base and its destination only by the assignment that
\* puts it on its base.)
moveTowardsDestination(location, maxSpeed, destination) ==
    LET leg == LegOf(location, destination)
    IN  IF SamePlace(leg.from, leg.to)
        THEN location
        ELSE LegPosition(leg.from, leg.to,
                         leg.along + leg.forward * DegreeStep999(maxSpeed))

----------------------------------------------------------------------------
(* Mission state machine: updateDroneState, one case of the switch each.   *)
(* hour is now.getHours(), r the Math.random() draw of the case's test, rd  *)
(* the draw that picks the destination, t the time new Date() returns.      *)

isBusinessHours(hour) == hour >= 8 /\ hour <= 18

\* Math.floor(Math.random() * this.destinations.length), as a 1-based index
DestinationIndex(rd) == (rd * Len(destinations)) \div 1000 + 1

\* mutant: the mission starts whatever the battery is
IdleCaseNoBatteryTest(p, hour, r, rd, t) ==
    IF isBusinessHours(hour) /\ r < 100
    THEN [p EXCEPT !.missionPhase = "preparing",
                   !.missionStartTime = t,
                   !.destination = DestinationIndex(rd)]
    ELSE [p EXCEPT !.currentBattery = Min(10000, p.currentBattery + 30)]

\* case 'idle'
IdleCase(p, hour, r, rd, t) ==
    LET shouldStartMission ==
            isBusinessHours(hour) /\ r < 100 /\ p.currentBattery > 5000
    IN  IF shouldStartMission
        THEN [p EXCEPT !.missionPhase = "preparing",
                       !.missionStartTime = t,
                       !.destination = DestinationIndex(rd)]
        ELSE [p EXCEPT !.currentBattery = Min(10000, p.currentBattery + 30)]

\* case 'preparing'
PreparingCase(p, r) ==
    IF r < 500 THEN [p EXCEPT !.missionPhase = "flying"] ELSE p

\* the move of a step under way and its loss of charge:
\* this.moveTowardsDestination(profile, target); profile.currentBattery -=
\* decay
Advance(p, target, decay) ==
    [p EXCEPT !.currentLocation = moveTowardsDestination(@, p.maxSpeed, target),
              !.currentBattery = @ - decay]

\* if (distance < 0.005 || Math.random() < 0.08), on the moved profile q
FlyingArrival(q, r) ==
    IF DistanceBelow(q.currentLocation, destinations[q.destination], 500)
       \/ r < 80
    THEN [q EXCEPT !.missionPhase = "delivering"]
    ELSE q

\* mutant: a flight that draws below 0.08 is aborted straight to idle
FlyingCaseAbort(p, r) ==
    IF p.destination # NoDestination
    THEN IF r < 80
         THEN [Advance(p, destinations[p.destination],
                       (p.batteryDecayRate * 8) \div 10)
                   EXCEPT !.missionPhase = "idle"]
         ELSE FlyingArrival(Advance(p, destinations[p.destination],
                                    (p.batteryDecayRate * 8) \div 10), r)
    ELSE p

\* mutant: arrival is tested on the position before the move
FlyingCaseArrivalFirst(p, r) ==
    IF p.destination # NoDestination
    THEN IF DistanceBelow(p.currentLocation, destinations[p.destination], 500)
            \/ r < 80
         THEN [Advance(p, destinations[p.destination],
                       (p.batteryDecayRate * 8) \div 10)
                   EXCEPT !.missionPhase = "delivering"]
         ELSE Advance(p, destinations[p.destination],
                      (p.batteryDecayRate * 8) \div 10)
    ELSE p

\* case 'flying'
FlyingCase(p, r) ==
    IF p.destination # NoDestination
    THEN FlyingArrival(Advance(p, destinations[p.destination],
                               (p.batteryDecayRate * 8) \div 10), r)
    ELSE p

\* case 'delivering'
DeliveringCase(p, r) ==
    LET q == [p EXCEPT !.currentBattery = p.currentBattery - 20]
    IN  IF r < 300 THEN [q EXCEPT !.missionPhase = "returning"] ELSE q

\* if (distanceToBase < 0.002 || Math.random() < 0.12), on the moved
\* profile q
ReturningArrival(q, r) ==
    IF DistanceBelow(q.currentLocation, q.baseLocation, 200) \/ r < 120
    THEN [q EXCEPT !.missionPhase = "idle",
                   !.currentLocation = q.baseLocation,
                   !.destination = NoDestination,
                   !.missionStartTime = Undefined]
    ELSE q

\* mutant: the return to idle keeps the destination
ReturningCaseKeepsDestination(p, r) ==
    LET q == Advance(p, p.baseLocation, (p.batteryDecayRate * 6) \div 10)
    IN  IF DistanceBelow(q.currentLocation, p.baseLocation, 200) \/ r < 120
        THEN [q EXCEPT !.missionPhase = "idle",
                       !.currentLocation = p.baseLocation,
                       !.missionStartTime = Undefined]
        ELSE q

\* mutant: the return to idle leaves the drone where it is
ReturningCaseNoSnap(p, r) ==
    LET q == Advance(p, p.baseLocation, (p.batteryDecayRate * 6) \div 10)
    IN  IF DistanceBelow(q.currentLocation, p.baseLocation, 200) \/ r < 120
        THEN [q EXCEPT !.missionPhase = "idle",
                       !.destination = NoDestination,
                       !.missionStartTime = Undefined]
        ELSE q

\* case 'returning'
ReturningCase(p, r) ==
    ReturningArrival(Advance(p, p.baseLocation,
                             (p.batteryDecayRate * 6) \div 10), r)

\* mutant: no floor on the battery
ClampBatteryNoFloor(battery) == battery

\* profile.currentBattery = Math.max(15, profile.currentBattery)
ClampBattery(battery) == Max(1500, battery)

\* updateDroneState: the profile after one step, the switch and the
\* statement after it
updateDroneState(p, hour, r, rd, t) ==
    [(CASE p.missionPhase = "idle" -> IdleCase(p, hour, r, rd, t)
        [] p.missionPhase = "preparing" -> PreparingCase(p, r)
        [] p.missionPhase = "flying" -> FlyingCase(p, r)
        [] p.missionPhase = "delivering" -> DeliveringCase(p, r)
        [] p.missionPhase = "returning" -> ReturningCase(p, r))
     EXCEPT !.currentBattery = ClampBattery(@)]

\* Random draws and hours that reach both sides of every test in the switch
Draws == {0, 79, 80, 99, 100, 119, 120, 299, 300, 499, 500, 999}

\* draws that pick each of the five destinations
DestinationDraws == {0, 200, 400, 600, 999}

\* the draws and hours of the driver's ticks: a draw below and one above every
\* threshold, a night hour and a business hour
TickDraws == {0, 999}

TickHours == {7, 12}

Hours == {7, 8, 18, 19}

\* every profile one step can lead to at the given hour
StepOutcomes(p, hour, t) ==
    {updateDroneState(p, hour, r, rd, t) :
        r \in TickDraws, rd \in DestinationDraws}

----------------------------------------------------------------------------
(* Override registry: the droneStates map and isDroneUnderManualOverride   *)

\* mutant: the clear resets the flag and leaves the expiry
ClearedEntryKeepsExpiry(state) == [state EXCEPT !.manualOverride = FALSE]

\* an entry with its override cleared: { ...state, manualOverride: false,
\* overrideExpiry: undefined }
ClearedEntry(state) ==
    [state EXCEPT !.manualOverride = FALSE, !.overrideExpiry = Undefined]

\* the droneStates.set(...) of the admin POST handler; isOnline, battery,
\* lastUpdate and lastPosition are data no operation reads and are left out
InstalledEntry(status, overrideExpiry) ==
    [status |-> status,
     manualOverride |-> TRUE,
     overrideExpiry |-> overrideExpiry]

SetEntry(reg, droneId, entry) ==
    [k \in DOMAIN reg \cup {droneId} |-> IF k = droneId THEN entry ELSE reg[k]]

\* mutant: the check does not test the manualOverride flag
RouteCheckNoFlagTest(reg, droneId, t) ==
    IF droneId \notin DOMAIN reg
    THEN [result |-> FALSE, reg |-> reg]
    ELSE IF reg[droneId].overrideExpiry # Undefined /\ t > reg[droneId].overrideExpiry
         THEN [result |-> FALSE,
               reg |-> SetEntry(reg, droneId, ClearedEntry(reg[droneId]))]
         ELSE [result |-> TRUE, reg |-> reg]

\* mutant: an override never expires
RouteCheckNoExpiry(reg, droneId, t) ==
    IF droneId \notin DOMAIN reg \/ ~reg[droneId].manualOverride
    THEN [result |-> FALSE, reg |-> reg]
    ELSE [result |-> TRUE, reg |-> reg]

\* route.ts isDroneUnderManualOverride: the value returned and the map after
RouteCheck(reg, droneId, t) ==
    IF droneId \notin DOMAIN reg \/ ~reg[droneId].manualOverride
    THEN [result |-> FALSE, reg |-> reg]
    ELSE IF reg[droneId].overrideExpiry # Undefined /\ t > reg[droneId].overrideExpiry
         THEN [result |-> FALSE,
               reg |-> SetEntry(reg, droneId, ClearedEntry(reg[droneId]))]
         ELSE [result |-> TRUE, reg |-> reg]

\* the map the simulator's droneStates variable refers to: nothing while it is
\* null, the shared map once imported, its own empty map when the import failed
NoEntries == [k \in {} |-> 0]

\* part_000 isDroneUnderManualOverride: the value returned and the shared map
\* after
SimCheck(ref, reg, droneId, t) ==
    IF ref = "null" THEN [result |-> FALSE, reg |-> reg]
    ELSE IF ref = "private" THEN [result |-> FALSE, reg |-> reg]
    ELSE RouteCheck(reg, droneId, t)

----------------------------------------------------------------------------
(* The tick: generateAndSaveTelemetry up to its await                      *)

\* the status generateCurrentTelemetry gives a mission phase
StatusOfPhase(phase) ==
    CASE phase = "idle" -> "Standby"
      [] phase = "preparing" -> "Pre-Flight"
      [] phase = "flying" -> "In Flight"
      [] phase = "delivering" -> "Delivered"
      [] phase = "returning" -> "Returning"

\* the fields of generateCurrentTelemetry's record that the profile decides:
\* battery rounded to 0.1, position (the source rounds it to 1e-6 degree)
\* rounded to the 1e-5 degree of the model, status
TickRecord(p, t) ==
    [droneId |-> p.id,
     timestamp |-> t,
     battery |-> RoundDiv(p.currentBattery, 10) * 10,
     lat |-> p.currentLocation.lat,
     lng |-> p.currentLocation.lng,
     status |-> StatusOfPhase(p.missionPhase)]

\* mutant: the flight altitude is the random offset alone
FlightAltitudeNoBase(p, spread, below, ra) ==
    RoundDiv(ra * spread, 1000) - below

\* Math.round(profile.operatingAltitude + Math.random() * spread - below), in
\* metres
FlightAltitude(p, spread, below, ra) ==
    p.operatingAltitude + RoundDiv(ra * spread, 1000) - below

\* generateCurrentTelemetry: the whole record but its temperature, which no
\* property reads. hour is timestamp.getHours(); rs, ra and rh are the draws
\* for speed, altitude and humidity. speed and humidity are in tenths (the
\* source rounds them to one decimal), altitude in metres. below holds the
\* pairs (maxSpeed, draw) of a returning drone for which speed * 10 is a half
\* in exact arithmetic and just under it in the doubles of the source, so
\* that Math.round gives the tenth below; the other Math.round calls of the
\* function meet no such pair
generateCurrentTelemetry(p, t, hour, rs, ra, rh) ==
    LET phase == p.missionPhase
        below == {<<65, 150>>, <<70, 25>>, <<70, 325>>, <<70, 375>>,
                  <<70, 475>>, <<75, 350>>, <<75, 370>>, <<75, 410>>,
                  <<75, 450>>, <<75, 550>>, <<75, 950>>}
        speed == CASE phase = "flying" ->
                        RoundDiv(p.maxSpeed * (8000 + 2 * rs), 1000)
                   [] phase = "returning" ->
                        RoundDiv(p.maxSpeed * (7000 + 2 * rs), 1000)
                           - (IF <<p.maxSpeed, rs>> \in below THEN 1 ELSE 0)
                   [] OTHER -> 0
        altitude == CASE phase = "flying" -> FlightAltitude(p, 30, 15, ra)
                      [] phase = "returning" -> FlightAltitude(p, 25, 10, ra)
                      [] OTHER -> 0
        humidityBase == 650 - Abs(hour - 14) * 15
    IN  [droneId |-> p.id,
         timestamp |-> t,
         battery |-> TickRecord(p, t).battery,
         humidity |-> humidityBase + RoundDiv(rh * 150, 1000),
         speed |-> speed,
         altitude |-> altitude,
         lat |-> TickRecord(p, t).lat,
         lng |-> TickRecord(p, t).lng,
         status |-> StatusOfPhase(phase)]

\* generateHistoricalDataPoint, battery: the draws (missionProgress and the
\* draw of the battery term, in thousandths) for which
\* Math.max(20, 90 - missionProgress * 40 + Math.random() * 10) * 10 is a half
\* in exact arithmetic and just under it in the doubles of the source, so
\* that Math.round gives the tenth below
BatteryBelowHalf(progress, battery) ==
    CASE progress \in {1, 26, 51, 76, 101, 126, 151, 201, 226, 276, 326,
                       551} ->
              battery \in {19, 49, 69, 99, 119, 149, 169, 199, 219, 249,
                           269, 299, 319, 349, 369, 399, 419, 449, 469, 499,
                           519, 549, 569, 599, 619, 649, 669, 699, 719, 749,
                           769, 799, 819, 849, 869, 899, 919, 949, 969, 999}
      [] progress \in {3, 28, 53, 78, 103, 128, 153, 178, 203, 228, 253,
                       278, 303, 328, 353, 378, 403, 428, 453, 478, 503,
                       528, 553, 578, 603, 628} ->
              battery \in {7, 27, 57, 77, 107, 127, 157, 177, 207, 227, 257,
                           277, 307, 327, 357, 377, 407, 427, 457, 477, 507,
                           527, 557, 577, 607, 627, 657, 677, 707, 727, 757,
                           777, 807, 827, 857, 877, 907, 927, 957, 977}
      [] progress \in {5, 30, 55, 80, 105, 130, 155, 180, 205, 230, 255,
                       280, 305, 330, 355, 380, 405, 430, 455, 480, 505,
                       530, 555, 580, 605, 630, 655} ->
              battery \in {35, 85, 135, 185, 235, 285, 335, 385, 435, 485,
                           535, 585, 635, 685, 735, 785, 815, 835, 885, 985}
      [] progress \in {10, 35, 60, 85, 110, 135, 160, 185, 210, 235, 260,
                       285, 310, 335, 360, 385, 410, 435, 460, 485, 510,
                       535, 560, 585, 610, 635} ->
              battery \in {5, 35, 55, 85, 105, 135, 155, 185, 205, 235, 255,
                           285, 305, 335, 355, 385, 405, 435, 455, 485, 505,
                           535, 555, 585, 605, 635, 655, 685, 705, 735, 755,
                           785, 805, 835, 855, 885, 905, 935, 955, 985}
      [] progress \in {12, 37, 62, 87, 112, 137, 162, 187, 212, 237, 262,
                       287, 312, 337, 362, 387, 412, 437, 462, 487, 512,
                       537, 562, 612, 637} ->
              battery \in {13, 63, 113, 163, 213, 243, 263, 293, 313, 363,
                           413, 443, 463, 493, 513, 563, 593, 613, 643, 663,
                           693, 713, 743, 763, 813, 843, 863, 893, 913, 943,
                           963, 993}
      [] progress \in {14, 39, 64, 89, 114, 139, 164, 189, 214, 239, 264,
                       289, 314, 339, 364, 389, 414, 439, 464, 489, 514,
                       539, 564, 589, 614, 639} ->
              battery \in {21, 71, 121, 171, 221, 271, 321, 371, 421, 471,
                           521, 571, 621, 721, 771, 821, 971}
      [] progress \in {17, 42, 67, 92, 117, 142, 167, 192, 217, 242, 267,
                       292, 317, 342, 367, 392, 417, 442, 467, 492, 517,
                       542, 567, 592, 617, 642} ->
              battery \in {13, 33, 63, 83, 113, 133, 163, 183, 213, 233,
                           263, 283, 313, 333, 363, 383, 413, 433, 463, 483,
                           513, 533, 563, 583, 613, 633, 663, 683, 713, 733,
                           763, 783, 813, 833, 863, 883, 913, 933, 963, 983}
      [] progress \in {19, 44, 69, 94, 119, 144, 169, 194, 219, 244, 269,
                       294, 319, 369, 394, 444, 519, 544, 644} ->
              battery \in {21, 41, 71, 91, 121, 141, 171, 191, 221, 241,
                           271, 291, 321, 341, 371, 391, 421, 441, 471, 491,
                           521, 541, 571, 591, 621, 641, 671, 691, 721, 741,
                           771, 791, 821, 841, 871, 891, 921, 941, 971, 991}
      [] progress \in {21, 46, 71, 96, 121, 146, 171, 196, 221, 246, 271,
                       296, 321, 346, 371, 396, 421, 446, 471, 496, 521,
                       546, 571, 596, 621, 646} ->
              battery \in {49, 99, 149, 199, 249, 299, 349, 399, 449, 499,
                           549, 579, 599, 649, 699, 749, 799, 829, 849, 879,
                           899, 949, 979, 999}
      [] progress \in {23, 48, 73, 98, 123, 148, 173, 198, 223, 248, 273,
                       298, 323, 348, 373, 398, 423, 448, 473, 498, 523,
                       548, 573, 598, 623, 648} ->
              battery \in {7, 57, 107, 157, 207, 307, 357, 407, 707}
      [] progress \in {199, 224, 249, 274, 324, 374, 399, 424, 449, 474,
                       499, 524, 549, 599, 624, 649} ->
              battery \in {11, 21, 41, 61, 71, 91, 111, 121, 141, 161, 171,
                           191, 211, 221, 241, 261, 271, 291, 311, 321, 341,
                           361, 371, 391, 411, 421, 441, 461, 471, 491, 511,
                           521, 541, 561, 571, 591, 611, 621, 641, 661, 691,
                           711, 721, 741, 761, 771, 791, 811, 821, 841, 861,
                           891, 911, 941, 961, 971, 991}
      [] progress \in {281, 406, 456, 506, 531, 556, 631} ->
              battery \in {19, 39, 49, 69, 89, 99, 119, 139, 149, 169, 189,
                           199, 219, 239, 249, 269, 289, 299, 319, 339, 349,
                           369, 389, 399, 419, 439, 449, 469, 489, 499, 519,
                           539, 549, 569, 579, 589, 599, 619, 639, 649, 669,
                           689, 699, 719, 739, 749, 769, 789, 799, 819, 829,
                           839, 849, 869, 879, 889, 899, 919, 939, 949, 969,
                           979, 989, 999}
      [] progress \in {538} ->
              battery \in {7, 17, 27, 47, 57, 67, 77, 97, 107, 117, 127,
                           147, 157, 167, 177, 197, 207, 217, 227, 247, 257,
                           267, 277, 297, 307, 317, 327, 347, 357, 367, 377,
                           397, 407, 417, 427, 447, 457, 467, 477, 497, 507,
                           517, 527, 547, 557, 567, 577, 597, 607, 617, 627,
                           647, 657, 667, 677, 697, 707, 717, 727, 747, 757,
                           767, 777, 797, 807, 817, 827, 847, 857, 867, 877,
                           897, 907, 917, 927, 947, 957, 967, 977, 997}
      [] progress \in {653} ->
              battery \in {27, 57, 77, 107, 127, 157, 177, 207, 227, 257,
                           277, 307, 327, 357, 377, 407, 427, 457, 477, 507,
                           527, 557, 577, 607, 627, 657, 677, 707, 727, 757,
                           777, 807, 827, 857, 877, 907, 927, 957, 977}
      [] progress \in {656} ->
              battery \in {39, 89, 139, 189, 239, 289, 339, 389, 439, 489,
                           589, 689, 739, 939}
      [] progress \in {660} ->
              battery \in {5, 15, 55, 85, 105, 135, 155, 185, 205, 235, 255,
                           285, 305, 335, 355, 385, 405, 435, 455, 485, 505,
                           535, 555, 585, 605, 635, 655, 685, 705, 735, 755,
                           785, 805, 835, 855, 885, 905, 935, 955, 985}
      [] progress \in {662} ->
              battery \in {23, 63, 113, 163, 213, 243, 263, 293, 313, 363,
                           413, 443, 463, 493, 513, 563, 593, 613, 643, 663,
                           693, 713, 743, 763, 813, 843, 863, 893, 913, 943,
                           963, 993}
      [] progress \in {663} ->
              battery \in {67, 117, 167, 217, 267, 317, 367, 417, 467, 517,
                           567, 617, 667, 717, 767, 817, 847, 867, 917, 947,
                           967}
      [] progress \in {664} ->
              battery \in {71, 121, 171, 221, 271, 321, 371, 421, 471, 521,
                           571, 621, 721, 771, 821, 971}
      [] progress \in {669} ->
              battery \in {1, 41, 51, 91, 121, 141, 171, 191, 221, 241, 271,
                           291, 321, 341, 371, 391, 421, 441, 471, 491, 521,
                           541, 571, 591, 621, 641, 671, 691, 721, 741, 771,
                           791, 821, 841, 871, 891, 921, 941, 971, 991}
      [] progress \in {671} ->
              battery \in {99, 149, 199, 249, 299, 349, 399, 449, 499, 549,
                           579, 599, 649, 699, 749, 799, 829, 849, 879, 899,
                           949, 979, 999}
      [] progress \in {672} ->
              battery \in {103, 153, 203, 253, 303, 353, 403, 453, 503, 553,
                           603, 653, 703, 753, 853, 953}
      [] progress \in {673} ->
              battery \in {107, 157, 207, 307, 357, 407, 707}
      [] progress \in {676} ->
              battery \in {19, 29, 69, 79, 119, 149, 169, 199, 219, 249,
                           269, 299, 319, 349, 369, 399, 419, 449, 469, 499,
                           519, 549, 569, 599, 619, 649, 669, 699, 719, 749,
                           769, 799, 819, 849, 869, 899, 919, 949, 969, 999}
      [] progress \in {678} ->
              battery \in {37, 87, 127, 157, 177, 207, 227, 257, 277, 307,
                           327, 357, 377, 407, 427, 457, 477, 507, 527, 557,
                           577, 607, 627, 657, 677, 707, 727, 757, 777, 807,
                           827, 857, 877, 907, 927, 957, 977}
      [] progress \in {679} ->
              battery \in {41, 91, 131, 181, 231, 281, 331, 381, 411, 431,
                           481, 531, 581, 611, 631, 681, 711, 731, 781, 831,
                           861, 881, 911, 931, 961, 981}
      [] progress \in {680} ->
              battery \in {135, 185, 235, 285, 335, 385, 435, 485, 535, 585,
                           635, 685, 735, 785, 815, 835, 885, 985}
      [] progress \in {681} ->
              battery \in {139, 189, 239, 289, 339, 389, 439, 489, 589, 689,
                           739, 939}
      [] progress \in {685} ->
              battery \in {5, 15, 55, 65, 105, 115, 155, 185, 205, 235, 255,
                           285, 305, 335, 355, 385, 405, 435, 455, 485, 505,
                           535, 555, 585, 605, 635, 655, 685, 705, 735, 755,
                           785, 805, 835, 855, 885, 905, 935, 955, 985}
      [] progress \in {687} ->
              battery \in {23, 73, 123, 163, 213, 243, 263, 293, 313, 363,
                           413, 443, 463, 493, 513, 563, 593, 613, 643, 663,
                           693, 713, 743, 763, 813, 843, 863, 893, 913, 943,
                           963, 993}
      [] progress \in {689} ->
              battery \in {171, 221, 271, 321, 371, 421, 471, 521, 571, 621,
                           721, 771, 821, 971}
      [] progress \in {698} ->
              battery \in {207, 307, 357, 407, 707}
      [] progress \in {705} ->
              battery \in {235, 285, 335, 385, 435, 485, 535, 585, 635, 685,
                           735, 785, 815, 835, 885, 985}
      [] progress \in {714} ->
              battery \in {271, 321, 371, 421, 471, 521, 571, 621, 721, 771,
                           821, 971}
      [] progress \in {721} ->
              battery \in {299, 349, 399, 449, 499, 549, 579, 599, 649, 699,
                           749, 799, 829, 849, 879, 899, 949, 979, 999}
      [] progress \in {723} ->
              battery \in {307, 357, 407, 707}
      [] progress \in {730} ->
              battery \in {335, 385, 435, 485, 535, 585, 635, 685, 735, 785,
                           815, 835, 885, 985}
      [] progress \in {737} ->
              battery \in {23, 73, 123, 173, 223, 323, 363, 413, 443, 463,
                           493, 513, 563, 593, 613, 643, 663, 693, 713, 743,
                           763, 813, 843, 863, 893, 913, 943, 963, 993}
      [] progress \in {739} ->
              battery \in {371, 421, 471, 521, 571, 621, 721, 771, 821, 971}
      [] progress \in {746} ->
              battery \in {399, 449, 499, 549, 579, 599, 649, 699, 749, 799,
                           829, 849, 879, 899, 949, 979, 999}
      [] progress \in {748} ->
              battery \in {407, 707}
      [] progress \in {753} ->
              battery \in {37, 87, 137, 187, 237, 287, 337, 387, 427, 457,
                           477, 507, 527, 557, 577, 607, 627, 657, 677, 707,
                           727, 757, 777, 807, 827, 857, 877, 907, 927, 957,
                           977}
      [] progress \in {755} ->
              battery \in {435, 485, 535, 585, 635, 685, 735, 785, 815, 835,
                           885, 985}
      [] progress \in {756} ->
              battery \in {439, 489, 589, 689, 739, 939}
      [] progress \in {762} ->
              battery \in {23, 73, 123, 173, 223, 323, 373, 423, 463, 493,
                           513, 563, 593, 613, 643, 663, 693, 713, 743, 763,
                           813, 843, 863, 893, 913, 943, 963, 993}
      [] progress \in {764} ->
              battery \in {471, 521, 571, 621, 721, 771, 821, 971}
      [] progress \in {769} ->
              battery \in {1, 41, 51, 91, 101, 141, 151, 191, 201, 241, 251,
                           291, 301, 341, 351, 391, 401, 441, 451, 491, 521,
                           541, 571, 591, 621, 641, 671, 691, 721, 741, 771,
                           791, 821, 841, 871, 891, 921, 941, 971, 991}
      [] progress \in {771} ->
              battery \in {499, 549, 579, 599, 649, 699, 749, 799, 829, 849,
                           879, 899, 949, 979, 999}
      [] progress \in {772} ->
              battery \in {503, 553, 603, 653, 703, 753, 853, 953}
      [] progress \in {773, 798, 823} ->
              battery \in {707}
      [] progress \in {778} ->
              battery \in {37, 87, 137, 187, 237, 287, 337, 387, 427, 437,
                           477, 487, 527, 557, 577, 607, 627, 657, 677, 707,
                           727, 757, 777, 807, 827, 857, 877, 907, 927, 957,
                           977}
      [] progress \in {780} ->
              battery \in {535, 585, 635, 685, 735, 785, 815, 835, 885, 985}
      [] progress \in {781} ->
              battery \in {589, 689, 739, 939}
      [] progress \in {785} ->
              battery \in {5, 15, 55, 65, 105, 115, 155, 165, 205, 215, 255,
                           265, 305, 315, 355, 365, 405, 415, 455, 465, 505,
                           515, 555, 585, 605, 635, 655, 685, 705, 735, 755,
                           785, 805, 835, 855, 885, 905, 935, 955, 985}
      [] progress \in {787} ->
              battery \in {23, 73, 123, 173, 223, 323, 373, 423, 473, 563,
                           593, 613, 643, 663, 693, 713, 743, 763, 813, 843,
                           863, 893, 913, 943, 963, 993}
      [] progress \in {788} ->
              battery \in {567, 617, 667, 717, 767, 817, 847, 867, 917, 947,
                           967}
      [] progress \in {789} ->
              battery \in {571, 621, 721, 771, 821, 971}
      [] progress \in {794} ->
              battery \in {1, 41, 51, 91, 101, 141, 151, 191, 201, 241, 251,
                           291, 301, 341, 351, 391, 401, 441, 451, 491, 501,
                           541, 551, 591, 621, 641, 671, 691, 721, 741, 771,
                           791, 821, 841, 871, 891, 921, 941, 971, 991}
      [] progress \in {796} ->
              battery \in {599, 649, 699, 749, 799, 829, 849, 879, 899, 949,
                           979, 999}
      [] progress \in {797} ->
              battery \in {603, 653, 703, 753, 853, 953}
      [] progress \in {803} ->
              battery \in {37, 87, 137, 187, 237, 287, 337, 387, 427, 437,
                           477, 487, 537, 577, 587, 627, 657, 677, 707, 727,
                           757, 777, 807, 827, 857, 877, 907, 927, 957, 977}
      [] progress \in {804} ->
              battery \in {41, 91, 141, 291, 631, 681, 711, 731, 781, 831,
                           861, 881, 911, 931, 961, 981}
      [] progress \in {805} ->
              battery \in {635, 685, 735, 785, 815, 835, 885, 985}
      [] progress \in {806} ->
              battery \in {689, 739, 939}
      [] progress \in {810} ->
              battery \in {5, 15, 55, 65, 105, 115, 155, 165, 205, 215, 255,
                           265, 305, 315, 355, 365, 405, 415, 455, 465, 505,
                           515, 555, 565, 605, 615, 655, 685, 705, 735, 755,
                           785, 805, 835, 855, 885, 905, 935, 955, 985}
      [] progress \in {811} ->
              battery \in {19, 69, 119, 169, 209, 219, 259, 269, 309, 319,
                           359, 369, 409, 419, 459, 469, 509, 519, 569, 609,
                           619, 659, 689, 709, 739, 759, 789, 809, 839, 859,
                           889, 909, 939, 959, 989}
      [] progress \in {812} ->
              battery \in {23, 73, 123, 173, 223, 323, 373, 423, 473, 563,
                           573, 663, 693, 713, 743, 763, 813, 843, 863, 893,
                           913, 943, 963, 993}
      [] progress \in {839} ->
              battery \in {771, 821, 971}
      [] progress \in {855} ->
              battery \in {835, 885, 985}
      [] progress \in {856, 881} ->
              battery \in {939}
      [] progress \in {864, 889} ->
              battery \in {971}
      [] progress \in {871} ->
              battery \in {899, 949, 979, 999}
      [] progress \in {872} ->
              battery \in {953}
      [] progress \in {880} ->
              battery \in {985}
      [] progress \in {887} ->
              battery \in {23, 73, 123, 173, 223, 323, 373, 423, 473, 563,
                           573, 723, 813, 863, 963, 993}
      [] progress \in {888} ->
              battery \in {967}
      [] progress \in {896} ->
              battery \in {999}
      [] progress \in {903, 928} ->
              battery \in {37, 87, 137, 187, 237, 287, 337, 387, 427, 437,
                           477, 487, 537, 577, 587, 627, 637, 727, 737, 787,
                           827, 837, 877, 927, 977, 987}
      [] progress \in {904, 929} ->
              battery \in {41, 91, 141, 291, 691, 831}
      [] progress \in {912, 937} ->
              battery \in {23, 73, 123, 173, 223, 323, 373, 423, 473, 563,
                           573, 723, 813, 863, 963}
      [] progress \in {919} ->
              battery \in {1, 41, 51, 91, 101, 141, 151, 191, 201, 241, 251,
                           291, 301, 341, 351, 391, 401, 441, 451, 491, 501,
                           541, 551, 591, 601, 641, 651, 691, 701, 741, 751,
                           791, 801, 841, 851, 891, 901, 941, 951, 991}
      [] progress \in {920} ->
              battery \in {5, 55, 105, 155, 205, 255, 305, 355, 455, 505,
                           595, 605, 695, 705, 755, 845, 895, 945, 955, 995}
      [] progress \in {935} ->
              battery \in {5, 15, 55, 65, 105, 115, 155, 165, 205, 215, 255,
                           265, 305, 315, 355, 365, 405, 415, 455, 465, 505,
                           515, 555, 565, 605, 615, 655, 665, 705, 715, 755,
                           765, 805, 815, 855, 865, 905, 915, 955, 965}
      [] progress \in {936} ->
              battery \in {19, 69, 119, 169, 209, 219, 259, 269, 309, 319,
                           359, 369, 409, 419, 459, 469, 509, 519, 569, 609,
                           619, 659, 669, 709, 719, 759, 769, 809, 819, 859,
                           869, 909, 959, 969}
      [] progress \in {980} ->
              battery \in {5, 15}
      [] progress \in {981} ->
              battery \in {19}
      [] progress \in {982} ->
              battery \in {23}
      [] progress \in {989} ->
              battery \in {1, 41, 51}
      [] progress \in {990} ->
              battery \in {5, 55}
      [] progress \in {996} ->
              battery \in {19, 29, 69, 79}
      [] progress \in {997} ->
              battery \in {23, 33, 73, 83}
      [] progress \in {998} ->
              battery \in {37, 87}
      [] progress \in {999} ->
              battery \in {41, 91}
      [] OTHER -> FALSE

\* generateHistoricalDataPoint but for its temperature. d is the record of
\* its Math.random() draws in thousandths: active, progress, battery, speed,
\* lat, lng, humidity, altitude, status. Units as in generateCurrentTelemetry.
\* below holds the pairs (maxSpeed, draw) for which speed * 10 is a half in
\* exact arithmetic and just under it in the doubles of the source
generateHistoricalDataPoint(p, t, hour, isWeekend, d) ==
    LET activityLevel == IF isBusinessHours(hour) /\ ~isWeekend THEN 600 ELSE 200
        isActive == d.active < activityLevel
        statusOptions == <<"Standby", "Active", "In Flight", "Delivered",
                           "Returning">>
        below == {<<65, 225>>, <<65, 325>>, <<75, 15>>, <<75, 145>>,
                  <<75, 155>>, <<75, 165>>, <<75, 175>>, <<75, 195>>,
                  <<75, 225>>, <<75, 705>>, <<75, 715>>, <<75, 725>>,
                  <<75, 815>>, <<75, 855>>, <<75, 905>>}
    IN  IF isActive
        THEN [droneId |-> p.id,
              timestamp |-> t,
              battery |-> (RoundDiv(Max(2000, 9000 - 4 * d.progress + d.battery), 10)
                             - (IF BatteryBelowHalf(d.progress, d.battery)
                                THEN 1 ELSE 0)) * 10,
              humidity |-> 550 + RoundDiv(d.humidity * 250, 1000),
              speed |-> RoundDiv(p.maxSpeed * (6000 + 4 * d.speed), 1000)
                          - (IF <<p.maxSpeed, d.speed>> \in below THEN 1 ELSE 0),
              altitude |-> p.operatingAltitude + (d.altitude * 40) \div 1000 - 20,
              lat |-> p.baseLocation.lat + (d.lat - 500) * 8,
              lng |-> p.baseLocation.lng + (d.lng - 500) * 8,
              status |-> statusOptions[(d.status * Len(statusOptions)) \div 1000 + 1]]
        ELSE [droneId |-> p.id,
              timestamp |-> t,
              battery |-> 8500 + (d.battery * 15) \div 10,
              humidity |-> 600 + (d.humidity * 200) \div 1000,
              speed |-> 0,
              altitude |-> 0,
              lat |-> p.baseLocation.lat,
              lng |-> p.baseLocation.lng,
              status |-> "Standby"]

\* a profile entry that is missing or damaged: reading its fields in
\* updateDroneState throws
MissingProfile == [missing |-> TRUE]

IsMissing(p) == "missing" \in DOMAIN p

\* mutant: an overridden drone is reported as skipped but advanced all the same
TickDroneNoSkip(st, d, ref, hour, draw, t) ==
    LET c == SimCheck(ref, st.reg, d, t)
        q == updateDroneState(st.profiles[d], hour, draw.r, draw.rd, t)
    IN  IF IsMissing(st.profiles[d])
        THEN [st EXCEPT !.reg = c.reg, !.failed = TRUE]
        ELSE [profiles |-> [st.profiles EXCEPT ![d] = q],
              reg |-> c.reg,
              batch |-> Append(st.batch, TickRecord(q, t)),
              skipped |-> IF c.result THEN st.skipped \cup {d} ELSE st.skipped,
              failed |-> FALSE]

\* mutant: the record is made from the profile as it was before the step
TickDroneStaleRecord(st, d, ref, hour, draw, t) ==
    LET c == SimCheck(ref, st.reg, d, t)
        q == updateDroneState(st.profiles[d], hour, draw.r, draw.rd, t)
    IN  IF c.result
        THEN [st EXCEPT !.reg = c.reg, !.skipped = @ \cup {d}]
        ELSE IF IsMissing(st.profiles[d])
             THEN [st EXCEPT !.reg = c.reg, !.failed = TRUE]
             ELSE [profiles |-> [st.profiles EXCEPT ![d] = q],
                   reg |-> c.reg,
                   batch |-> Append(st.batch, TickRecord(st.profiles[d], t)),
                   skipped |-> st.skipped,
                   failed |-> FALSE]

\* mutant: the record of the drone's earlier step is sent again with the new
\* one
TickDroneResends(st, d, ref, hour, draw, t) ==
    LET c == SimCheck(ref, st.reg, d, t)
        q == updateDroneState(st.profiles[d], hour, draw.r, draw.rd, t)
    IN  IF c.result
        THEN [st EXCEPT !.reg = c.reg, !.skipped = @ \cup {d}]
        ELSE IF IsMissing(st.profiles[d])
             THEN [st EXCEPT !.reg = c.reg, !.failed = TRUE]
             ELSE [profiles |-> [st.profiles EXCEPT ![d] = q],
                   reg |-> c.reg,
                   batch |-> Append(Append(st.batch, TickRecord(st.profiles[d], t)),
                                    TickRecord(q, t)),
                   skipped |-> st.skipped,
                   failed |-> FALSE]

\* the body of the for loop for drone d, whose updateDroneState draws draw.r
\* for the test of its case and draw.rd for the destination: the loop state
\* it leaves behind; failed is set when the body threw, which ends the loop
\* in the catch of generateAndSaveTelemetry
TickDrone(st, d, ref, hour, draw, t) ==
    LET c == SimCheck(ref, st.reg, d, t)
        q == updateDroneState(st.profiles[d], hour, draw.r, draw.rd, t)
    IN  IF c.result
        THEN [st EXCEPT !.reg = c.reg, !.skipped = @ \cup {d}]
        ELSE IF IsMissing(st.profiles[d])
             THEN [st EXCEPT !.reg = c.reg, !.failed = TRUE]
             ELSE [profiles |-> [st.profiles EXCEPT ![d] = q],
                   reg |-> c.reg,
                   batch |-> Append(st.batch, TickRecord(q, t)),
                   skipped |-> st.skipped,
                   failed |-> FALSE]

\* for (const [droneId, profile] of this.profiles), in insertion order;
\* draws gives each drone the draws of its step
RECURSIVE TickLoop(_, _, _, _, _, _)
TickLoop(i, st, ref, hour, draws, t) ==
    IF i > Len(DroneOrder) \/ st.failed THEN st
    ELSE IF DroneOrder[i] \notin DOMAIN st.profiles
         THEN TickLoop(i + 1, st, ref, hour, draws, t)
         ELSE TickLoop(i + 1,
                       TickDrone(st, DroneOrder[i], ref, hour,
                                 draws[DroneOrder[i]], t),
                       ref, hour, draws, t)

\* the draws of one tick at the given hour from the profiles ps, a pair for
\* each drone: a drone on a mission (busy) draws low or high; an idle drone
\* draws in business hours only, high, or low with a draw for each
\* destination, and low only while that leaves at most MaxMissions drones on
\* a mission
LoopDraws(ps, hour) ==
    LET busy == {d \in DOMAIN ps :
                   ~IsMissing(ps[d]) /\ ps[d].missionPhase # "idle"}
        idle == {d \in DOMAIN ps :
                   /\ ~IsMissing(ps[d])
                   /\ ps[d].missionPhase = "idle"
                   /\ isBusinessHours(hour)}
        room == Max(MaxMissions, Cardinality(busy)) - Cardinality(busy)
    IN  UNION {{[d \in DOMAIN ps |->
                    IF d \in starting THEN [r |-> 0, rd |-> sites[d]]
                    ELSE IF d \in low THEN [r |-> 0, rd |-> 0]
                    ELSE [r |-> 999, rd |-> 0]] :
                  sites \in [starting -> DestinationDraws],
                  low \in SUBSET busy} :
               starting \in {some \in SUBSET idle :
                                Cardinality(some) <= room}}

\* obs marks the calls that return at their first test or end in their catch:
\* "startNoop" after a start() that found isRunning set, "stopNoop" after a
\* stop() that found it clear, "startFailed" after a start() whose connectDB
\* threw; any other step resets it
NoObs == [op |-> "none"]

\* generateAndSaveTelemetry from its call to the await of insertMany, or to
\* its catch when the loop threw
RunTick ==
    /\ ticks < MaxTicks
    /\ Len(inflight) < MaxInflight
    /\ \E hour \in TickHours : \E draws \in LoopDraws(profiles, hour) :
         LET st == TickLoop(1, [profiles |-> profiles, reg |-> registry,
                                batch |-> <<>>, skipped |-> {},
                                failed |-> FALSE],
                            simStates, hour, draws, now)
         IN  /\ profiles' = st.profiles
             /\ registry' = st.reg
             /\ inflight' = IF ~st.failed /\ Len(st.batch) > 0
                            THEN Append(inflight, st.batch)
                            ELSE inflight
             /\ obs' = NoObs
    /\ ticks' = ticks + 1

----------------------------------------------------------------------------
(* The simulation driver: start, stop, the timer, getStatus                *)

\* a value of 85 + Math.random() * 15
InitialBatteries == {9990}

RemoveAt(seq, i) == SubSeq(seq, 1, i - 1) \o SubSeq(seq, i + 1, Len(seq))

\* the smallest timer id not armed
FreshTimer == CHOOSE id \in 1..(Cardinality(timers) + 1) : id \notin timers

\* generateHistoricalData: (hours * 60) / intervalMinutes + 1 timestamps, one
\* record per profile each
HistoricalRecords(hours) == ((hours * 60) \div 3 + 1) * Cardinality(DOMAIN profiles)

BatchSize == 100

\* start() after initializeDatabase has returned: isRunning = true, setInterval,
\* and the first tick up to its await
StartGo(i) ==
    /\ isRunning' = TRUE
    /\ interval' = FreshTimer
    /\ timers' = timers \cup {FreshTimer}
    /\ starts' = RemoveAt(starts, i)
    /\ RunTick

\* mutant: start() does not test isRunning
StartCallNoGuard ==
    /\ Cardinality(timers) + Len(starts) < MaxTimers
    /\ starts' = Append(starts, [at |-> "connect", left |-> 0])
    /\ obs' = IF isRunning THEN [NoObs EXCEPT !.op = "startNoop"] ELSE NoObs
    /\ UNCHANGED <<now, isRunning, interval, timers, profiles, simStates,
                   registry, inflight, dbEmpty, posts, ticks>>

\* start() called: it returns at once when running, else runs to the await of
\* connectDB()
StartCall ==
    IF isRunning
    THEN /\ obs' = [NoObs EXCEPT !.op = "startNoop"]
         /\ UNCHANGED <<now, isRunning, interval, timers, profiles, simStates,
                        registry, starts, inflight, dbEmpty, posts, ticks>>
    ELSE /\ Cardinality(timers) + Len(starts) < MaxTimers
         /\ starts' = Append(starts, [at |-> "connect", left |-> 0])
         /\ obs' = NoObs
         /\ UNCHANGED <<now, isRunning, interval, timers, profiles, simStates,
                        registry, inflight, dbEmpty, posts, ticks>>

\* mutant: start() sets isRunning before it awaits connectDB, and the catch
\* does not reset it
StartConnectedLeavesFlag(i) ==
    /\ starts[i].at = "connect"
    /\ \/ /\ starts' = [starts EXCEPT ![i].at =
                           IF simStates = "null" THEN "import" ELSE "states"]
          /\ obs' = NoObs
          /\ UNCHANGED isRunning
       \/ /\ starts' = RemoveAt(starts, i)
          /\ obs' = [NoObs EXCEPT !.op = "startFailed"]
          /\ isRunning' = TRUE
    /\ UNCHANGED <<now, interval, timers, profiles, simStates,
                   registry, inflight, dbEmpty, posts, ticks>>

\* await connectDB() settles; on success getDroneStates() runs to its await,
\* on failure the catch of start() ends the call
StartConnected(i) ==
    /\ starts[i].at = "connect"
    /\ \/ /\ starts' = [starts EXCEPT ![i].at =
                           IF simStates = "null" THEN "import" ELSE "states"]
          /\ obs' = NoObs
       \/ /\ starts' = RemoveAt(starts, i)
          /\ obs' = [NoObs EXCEPT !.op = "startFailed"]
    /\ UNCHANGED <<now, isRunning, interval, timers, profiles, simStates,
                   registry, inflight, dbEmpty, posts, ticks>>

\* await getDroneStates() settles (the import stored or failed);
\* initializeDatabase() runs to the await of countDocuments()
StartStatesLoaded(i) ==
    /\ starts[i].at \in {"import", "states"}
    /\ \/ /\ starts[i].at = "import"
          /\ simStates' = "shared"
       \/ /\ starts[i].at = "import"
          /\ simStates' = "private"
       \/ /\ starts[i].at = "states"
          /\ UNCHANGED simStates
    /\ starts' = [starts EXCEPT ![i].at = "count"]
    /\ obs' = NoObs
    /\ UNCHANGED <<now, isRunning, interval, timers, profiles, registry,
                   inflight, dbEmpty, posts, ticks>>

\* countDocuments() settles: a count of 0 begins the backfill with its first
\* insertMany; any other count, or a failure, lets start() go on
StartCounted(i) ==
    /\ starts[i].at = "count"
    /\ \/ /\ dbEmpty
          /\ starts' = [starts EXCEPT ![i] =
                           [at |-> "backfill", left |-> HistoricalRecords(6)]]
          /\ obs' = NoObs
          /\ UNCHANGED <<isRunning, interval, timers, profiles, registry,
                         inflight, ticks>>
       \/ /\ ~dbEmpty
          /\ StartGo(i)
       \/ /\ StartGo(i)
    /\ UNCHANGED <<now, simStates, dbEmpty, posts>>

\* one insertMany of the backfill settles: stored with more to write, stored
\* as the last chunk, or failed (caught by initializeDatabase)
StartChunkStored(i) ==
    /\ starts[i].at = "backfill"
    /\ LET chunk == Min(BatchSize, starts[i].left)
       IN  \/ /\ starts[i].left > chunk
              /\ dbEmpty' = FALSE
              /\ starts' = [starts EXCEPT ![i].left = @ - chunk]
              /\ obs' = NoObs
              /\ UNCHANGED <<isRunning, interval, timers, profiles, registry,
                             inflight, ticks>>
           \/ /\ starts[i].left = chunk
              /\ dbEmpty' = FALSE
              /\ StartGo(i)
           \/ /\ UNCHANGED dbEmpty
              /\ StartGo(i)
    /\ UNCHANGED <<now, simStates, posts>>

\* stop()
Stop ==
    /\ IF isRunning
       THEN /\ isRunning' = FALSE
            /\ interval' = 0
            /\ timers' = timers \ {interval}
            /\ obs' = NoObs
       ELSE /\ UNCHANGED <<isRunning, interval, timers>>
            /\ obs' = [NoObs EXCEPT !.op = "stopNoop"]
    /\ UNCHANGED <<now, profiles, simStates, registry, starts, inflight,
                   dbEmpty, posts, ticks>>

\* an armed timer fires: the setInterval callback
TimerFire ==
    /\ timers # {}
    /\ RunTick
    /\ UNCHANGED <<now, isRunning, interval, timers, simStates, starts,
                   dbEmpty, posts>>

\* mutant: a failed insertMany is not caught and ends the driver
InsertSettledStops ==
    /\ Len(inflight) > 0
    /\ \E i \in 1..Len(inflight) :
         /\ inflight' = RemoveAt(inflight, i)
         /\ \/ /\ dbEmpty' = FALSE
               /\ obs' = NoObs
               /\ UNCHANGED <<isRunning, interval, timers>>
            \/ /\ UNCHANGED dbEmpty
               /\ obs' = NoObs
               /\ isRunning' = FALSE
               /\ interval' = 0
               /\ timers' = {}
    /\ UNCHANGED <<now, profiles, simStates, registry, starts, posts, ticks>>

\* a tick's insertMany settles, stored or failed
InsertSettled ==
    /\ Len(inflight) > 0
    /\ \E i \in 1..Len(inflight) :
         /\ inflight' = RemoveAt(inflight, i)
         /\ \/ /\ dbEmpty' = FALSE
               /\ obs' = NoObs
            \/ /\ UNCHANGED dbEmpty
               /\ obs' = NoObs
    /\ UNCHANGED <<now, isRunning, interval, timers, profiles, simStates,
                   registry, starts, posts, ticks>>

\* the isDroneUnderManualOverride calls of getStatus(), one per profile
StatusChecks(ref, reg, t) ==
    [overridden |-> {d \in DOMAIN profiles : SimCheck(ref, reg, d, t).result},
     reg |-> [k \in DOMAIN reg |->
                IF k \in DOMAIN profiles
                THEN SimCheck(ref, reg, k, t).reg[k] ELSE reg[k]]]

\* getStatus()
GetStatus ==
    /\ registry' = StatusChecks(simStates, registry, now).reg
    /\ obs' = NoObs
    /\ UNCHANGED <<now, isRunning, interval, timers, profiles, simStates,
                   starts, inflight, dbEmpty, posts, ticks>>

\* the clock moves on
AdvanceTime ==
    /\ now < MaxTime
    /\ now' = now + 1
    /\ obs' = NoObs
    /\ UNCHANGED <<isRunning, interval, timers, profiles, simStates, registry,
                   starts, inflight, dbEmpty, posts, ticks>>

----------------------------------------------------------------------------
(* The admin surface: POST and GET of /api/admin/drone-control, and the    *)
(* route's exported isDroneUnderManualOverride                             *)

\* request bodies: "" is a missing droneId or status, NoDuration a missing
\* duration
PostDrones == {"A1", ""}

PostStatuses == {"", "Active"}

NoDuration == Undefined

PostDurations == {NoDuration, 0, 2}

DefaultDuration == 1

\* duration || 5 * 60 * 1000
OverrideDuration(duration) ==
    IF duration = NoDuration \/ duration = 0 THEN DefaultDuration ELSE duration

\* POST with one request body: validation, the expiry, and the call of
\* findOne
PostRequest(droneId, status, duration) ==
    /\ IF droneId = "" \/ status = ""
       THEN /\ obs' = NoObs
            /\ UNCHANGED posts
       ELSE /\ Len(posts) < MaxPosts
            /\ posts' = Append(posts, [droneId |-> droneId,
                                       status |-> status,
                                       overrideExpiry |-> now + OverrideDuration(duration),
                                       at |-> "find"])
            /\ obs' = NoObs
    /\ UNCHANGED <<now, isRunning, interval, timers, profiles, simStates,
                   registry, starts, inflight, dbEmpty, ticks>>

\* POST received
AdminPost ==
    \E droneId \in PostDrones, status \in PostStatuses, duration \in PostDurations :
       PostRequest(droneId, status, duration)

\* connectDB().then(findOne) settles: the entry is installed and save() called,
\* or the handler answers 500
AdminPostFound(i) ==
    /\ posts[i].at = "find"
    /\ \/ /\ registry' = SetEntry(registry, posts[i].droneId,
                                  InstalledEntry(posts[i].status,
                                                 posts[i].overrideExpiry))
          /\ posts' = [posts EXCEPT ![i].at = "save"]
          /\ obs' = NoObs
       \/ /\ posts' = RemoveAt(posts, i)
          /\ obs' = NoObs
          /\ UNCHANGED registry
    /\ UNCHANGED <<now, isRunning, interval, timers, profiles, simStates,
                   starts, inflight, dbEmpty, ticks>>

\* newTelemetry.save() settles: 200, or 500 when it failed
AdminPostSaved(i) ==
    /\ posts[i].at = "save"
    /\ posts' = RemoveAt(posts, i)
    /\ \/ /\ dbEmpty' = FALSE
          /\ obs' = NoObs
       \/ /\ UNCHANGED dbEmpty
          /\ obs' = NoObs
    /\ UNCHANGED <<now, isRunning, interval, timers, profiles, simStates,
                   registry, starts, inflight, ticks>>

\* the clean-up loop of GET
CleanExpired(reg, t) ==
    [k \in DOMAIN reg |->
        IF reg[k].manualOverride /\ reg[k].overrideExpiry # Undefined
           /\ t > reg[k].overrideExpiry
        THEN ClearedEntry(reg[k]) ELSE reg[k]]

\* GET: the states it answers with are the map after the clean-up
AdminGet ==
    /\ registry' = CleanExpired(registry, now)
    /\ obs' = NoObs
    /\ UNCHANGED <<now, isRunning, interval, timers, profiles, simStates,
                   starts, inflight, dbEmpty, posts, ticks>>

\* the drones the route's isDroneUnderManualOverride is called for
QueriedDrones == {"A1", "A2"}

\* a call of the route's isDroneUnderManualOverride
RouteIsOverridden ==
    /\ \E droneId \in QueriedDrones :
         /\ registry' = RouteCheck(registry, droneId, now).reg
         /\ obs' = NoObs
    /\ UNCHANGED <<now, isRunning, interval, timers, profiles, simStates,
                   starts, inflight, dbEmpty, posts, ticks>>

\* the statuses of the admin page, and one string that is none of them
SynthStatuses ==
    {"Powered Off", "Standby", "Pre-Flight", "Active", "In Flight", "Landing",
     "Delivered", "Returning", "Maintenance", "Emergency", "Hover"}

\* basePosition of generateRealisticTelemetry
basePosition == [lat |-> -129210, lng |-> 3682190]

NoBattery == Undefined

NoRecord == [none |-> TRUE]

\* battery !== undefined ? battery : (lastTelemetry?.battery || 85)
ContextBattery(battery, lastTelemetry) ==
    IF battery # NoBattery THEN battery
    ELSE IF lastTelemetry = NoRecord \/ lastTelemetry.battery = 0 THEN 8500
         ELSE lastTelemetry.battery

\* lastTelemetry ? { lat, lng } : { lat: -1.2921, lng: 36.8219 }
ContextPosition(lastTelemetry) ==
    IF lastTelemetry = NoRecord THEN basePosition
    ELSE [lat |-> lastTelemetry.lat, lng |-> lastTelemetry.lng]

\* generateRealisticTelemetry but for its temperature: battery in hundredths,
\* speed in tenths, altitude in metres (both rounded down), position in 1e-5
\* degree (the tenth of the way to base of case 'Returning' to the nearest
\* unit). rs, ra, rl, rg are the draws for speed, altitude, lat and lng
generateRealisticTelemetry(droneId, status, battery, lastPosition, t, rs, ra, rl, rg) ==
    LET telemetryData ==
            [droneId |-> droneId, timestamp |-> t, battery |-> battery,
             humidity |-> 650, speed |-> 0, altitude |-> 0,
             lat |-> lastPosition.lat, lng |-> lastPosition.lng,
             status |-> status]
        atBase == [telemetryData EXCEPT !.lat = basePosition.lat,
                                        !.lng = basePosition.lng]
    IN  CASE status = "Powered Off" -> atBase
          [] status = "Standby" ->
               [atBase EXCEPT !.battery = Min(10000, battery + 100)]
          [] status = "Pre-Flight" -> atBase
          [] status = "Active" ->
               [atBase EXCEPT !.battery = Max(battery - 50, 2000)]
          [] status = "In Flight" ->
               [telemetryData EXCEPT
                   !.battery = Max(battery - 200, 1500),
                   !.speed = 400 + (rs * 250) \div 1000,
                   !.altitude = 120 + (ra * 80) \div 1000,
                   !.lat = lastPosition.lat + (rl - 500),
                   !.lng = lastPosition.lng + (rg - 500)]
          [] status = "Landing" ->
               [telemetryData EXCEPT
                   !.battery = Max(battery - 100, 1500),
                   !.speed = 50 + (rs * 100) \div 1000,
                   !.altitude = (ra * 20) \div 1000]
          [] status = "Delivered" ->
               [telemetryData EXCEPT !.battery = Max(battery - 50, 1500)]
          [] status = "Returning" ->
               [telemetryData EXCEPT
                   !.battery = Max(battery - 150, 1500),
                   !.speed = 350 + (rs * 200) \div 1000,
                   !.altitude = 100 + (ra * 60) \div 1000,
                   !.lat = lastPosition.lat
                             + RoundDiv(basePosition.lat - lastPosition.lat, 10),
                   !.lng = lastPosition.lng
                             + RoundDiv(basePosition.lng - lastPosition.lng, 10)]
          [] status = "Maintenance" -> atBase
          [] status = "Emergency" ->
               [telemetryData EXCEPT
                   !.battery = Max(battery - 300, 500),
                   !.speed = (rs * 150) \div 1000,
                   !.altitude = (ra * 50) \div 1000]
          [] OTHER -> telemetryData

----------------------------------------------------------------------------
(* The whole program, and the parts of it that are explored                *)

\* the state after the module is loaded and the simulator constructed: the
\* four profiles of initialProfiles, each with a battery of InitialBatteries
\* (the same draw for all of them)
Constructed ==
    /\ now = 0
    /\ isRunning = FALSE
    /\ interval = 0
    /\ timers = {}
    /\ profiles \in {[d \in AllDrones |-> NewProfile(d, b)] : b \in InitialBatteries}
    /\ simStates = "null"
    /\ registry = NoEntries
    /\ starts = <<>>
    /\ inflight = <<>>
    /\ posts = <<>>
    /\ ticks = 0
    /\ obs = NoObs

Init == Constructed /\ dbEmpty \in BOOLEAN

Next ==
    \/ StartCall
    \/ \E i \in 1..Len(starts) : StartConnected(i)
    \/ \E i \in 1..Len(starts) : StartStatesLoaded(i)
    \/ \E i \in 1..Len(starts) : StartCounted(i)
    \/ \E i \in 1..Len(starts) : StartChunkStored(i)
    \/ Stop
    \/ TimerFire
    \/ InsertSettled
    \/ GetStatus
    \/ AdminPost
    \/ \E i \in 1..Len(posts) : AdminPostFound(i)
    \/ \E i \in 1..Len(posts) : AdminPostSaved(i)
    \/ AdminGet
    \/ RouteIsOverridden
    \/ AdvanceTime

Spec == Init /\ [][Next]_vars

\* The driver on its own: start, stop, the timer and the store, with no admin
\* request; the store may hold records of earlier runs
InitDriver == Constructed /\ dbEmpty \in BOOLEAN

NextDriver ==
    \/ StartCall
    \/ \E i \in 1..Len(starts) : StartConnected(i)
    \/ \E i \in 1..Len(starts) : StartStatesLoaded(i)
    \/ \E i \in 1..Len(starts) : StartCounted(i)
    \/ \E i \in 1..Len(starts) : StartChunkStored(i)
    \/ Stop
    \/ TimerFire
    \/ InsertSettled
    \/ GetStatus

SpecDriver == InitDriver /\ [][NextDriver]_vars

\* The driver when start() is retried: start() is called again while the
\* driver is stopped, connectDB does not fail for ever (persistence is
\* reachable), and every other await of start() settles. Each fairness
\* condition is written with its enabling condition spelled out
SpecRetry ==
    /\ SpecDriver
    /\ \/ []<>(isRunning \/ Cardinality(timers) + Len(starts) >= MaxTimers)
       \/ []<><<Len(starts') > Len(starts)>>_vars
    /\ \/ <>[](\A i \in 1..Len(starts) : starts[i].at # "connect")
       \/ []<><<\E i \in 1..Len(starts) :
                    /\ starts[i].at = "connect"
                    /\ Len(starts') = Len(starts)
                    /\ starts'[i].at # "connect">>_vars
    /\ \/ []<>(\A i \in 1..Len(starts) :
                  \/ starts[i].at = "connect"
                  \/ /\ starts[i].at = "count" => ~dbEmpty
                     /\ starts[i].at = "backfill" => starts[i].left <= BatchSize
                     /\ starts[i].at \in {"count", "backfill"}
                     /\ ~(ticks < MaxTicks /\ Len(inflight) < MaxInflight))
       \/ []<><<\E i \in 1..Len(starts) :
                    /\ starts[i].at # "connect"
                    /\ \/ Len(starts') < Len(starts) /\ ticks' = ticks + 1
                       \/ Len(starts') = Len(starts) /\ starts'[i] # starts[i]>>_vars

\* The override registry with its readers and writers: the admin surface, the
\* tick, getStatus and the clock. The driver is either not started yet or was
\* started against a store with records (no backfill) and has done its first
\* tick at night, all four drones idle
Started ==
    /\ now = 0
    /\ isRunning = TRUE
    /\ interval = 1
    /\ timers = {1}
    /\ profiles = [d \in AllDrones |-> NewProfile(d, 9030)]
    /\ simStates = "shared"
    /\ registry = NoEntries
    /\ starts = <<>>
    /\ inflight = <<>>
    /\ dbEmpty = FALSE
    /\ posts = <<>>
    /\ ticks = 1
    /\ obs = NoObs

InitOverride ==
    \/ Constructed /\ dbEmpty = TRUE
    \/ Started

NextOverride ==
    \/ TimerFire
    \/ InsertSettled
    \/ GetStatus
    \/ AdminPost
    \/ \E i \in 1..Len(posts) : AdminPostFound(i)
    \/ \E i \in 1..Len(posts) : AdminPostSaved(i)
    \/ AdminGet
    \/ RouteIsOverridden
    \/ AdvanceTime

SpecOverride == InitOverride /\ [][NextOverride]_vars

----------------------------------------------------------------------------
(* The mission state machine on its own: updateDroneState applied to one   *)
(* drone, with every draw and hour that decides a test                     *)

\* batteries of a drone idle at base: from the floor (a mission that ended on
\* the clamp) over both sides of the 50 % test to just below the cap
IdleBatteries == {1500, 4990, 5000, 5010, 9000, 9980}

\* batteries of a drone that has been delivering for a long time
LowBatteries == {1500, 1510, 1530}

\* a drone that the arrival draw put to delivering after its first flight step
\* towards destination k, and that has been delivering since
LongDelivery(id, k, battery) ==
    [NewProfile(id, battery) EXCEPT
        !.missionPhase = "delivering",
        !.missionStartTime = 0,
        !.destination = k,
        !.currentLocation = moveTowardsDestination(Config(id).baseLocation,
                                                   Config(id).maxSpeed,
                                                   destinations[k])]

Quiet ==
    /\ now = 0
    /\ isRunning = FALSE
    /\ interval = 0
    /\ timers = {}
    /\ simStates = "null"
    /\ registry = NoEntries
    /\ starts = <<>>
    /\ inflight = <<>>
    /\ dbEmpty = TRUE
    /\ posts = <<>>
    /\ ticks = 0
    /\ obs = NoObs

InitMission ==
    /\ Quiet
    /\ \E id \in AllDrones :
         \/ \E b \in IdleBatteries :
              profiles = [d \in {id} |-> NewProfile(id, b)]
         \/ \E k \in 1..Len(destinations), b \in LowBatteries :
              profiles = [d \in {id} |-> LongDelivery(id, k, b)]

\* one updateDroneState call on the drone; the hour and the draw of the
\* destination are read by case 'idle' alone, so a drone in mission is
\* stepped with one value of each
MissionStep ==
    /\ ticks < MaxMissionTicks
    /\ ticks' = ticks + 1
    /\ \E hour \in Hours, r \in Draws, rd \in DestinationDraws :
         /\ \/ \E d \in DOMAIN profiles : profiles[d].missionPhase = "idle"
            \/ hour = 8 /\ rd = 0
         /\ profiles' = [d \in DOMAIN profiles |->
                           updateDroneState(profiles[d], hour, r, rd, now)]
    /\ UNCHANGED <<now, isRunning, interval, timers, simStates, registry,
                   starts, inflight, dbEmpty, posts, obs>>

SpecMission == InitMission /\ [][MissionStep]_vars

----------------------------------------------------------------------------
(* The records the driver writes: each tick steps the drone and makes its  *)
(* record with generateCurrentTelemetry, and the backfill makes records    *)
(* with generateHistoricalDataPoint of the profile as constructed; the     *)
(* record draws take their extreme values and, for speed and battery, a    *)
(* value at which Math.round meets a half                                  *)

\* the least and the greatest value of Math.random(), in thousandths
ExtremeDraws == {0, 999}

\* the hours of the day with the lowest and the highest humidity base, the
\* first outside and the second inside the business hours
RecordHours == {0, 14}

HistoricalDraws ==
    [active : {0, 999}, progress : ExtremeDraws \cup {1},
     battery : ExtremeDraws \cup {19}, speed : ExtremeDraws \cup {225},
     lat : ExtremeDraws, lng : ExtremeDraws,
     humidity : ExtremeDraws, altitude : ExtremeDraws, status : {0, 999}]

\* one tick of generateAndSaveTelemetry for the drone: updateDroneState, then
\* generateCurrentTelemetry of the profile as the step has left it, at the
\* same hour, and the batch handed to insertMany. The ticks go on while
\* earlier batches are in flight; the first tick comes when the backfill has
\* settled, as start() awaits initializeDatabase() before it
RecordTick ==
    /\ ticks < MaxTicks
    /\ Len(inflight) < MaxInflight
    /\ ticks > 0 \/ inflight = <<>>
    /\ ticks' = ticks + 1
    /\ \E d \in DOMAIN profiles, hour \in RecordHours, r \in TickDraws,
          rd \in DestinationDraws :
         LET q == updateDroneState(profiles[d], hour, r, rd, now)
         IN  /\ profiles[d].missionPhase = "idle" \/ rd = 0
             /\ profiles' = [profiles EXCEPT ![d] = q]
             /\ \E rs \in ExtremeDraws \cup {150}, ra \in ExtremeDraws,
                   rh \in ExtremeDraws :
                  inflight' = Append(inflight,
                     <<generateCurrentTelemetry(q, now, hour, rs, ra, rh)>>)
    /\ UNCHANGED <<now, isRunning, interval, timers, simStates, registry,
                   starts, dbEmpty, posts, obs>>

\* one record of the backfill, made before any step
HistoricalRecord ==
    /\ ticks = 0
    /\ inflight = <<>>
    /\ \E d \in DOMAIN profiles, hour \in RecordHours, isWeekend \in BOOLEAN,
          draws \in HistoricalDraws :
         /\ profiles[d].missionPhase = "idle"
         /\ inflight' = <<<<generateHistoricalDataPoint(profiles[d], now, hour,
                                                        isWeekend, draws)>>>>
    /\ UNCHANGED <<now, isRunning, interval, timers, profiles, simStates,
                   registry, starts, dbEmpty, posts, ticks, obs>>

NextRecord ==
    \/ RecordTick
    \/ HistoricalRecord
    \/ InsertSettled

SpecRecord == InitMission /\ [][NextRecord]_vars

----------------------------------------------------------------------------
(* moveTowardsDestination on its own: a drone flying to a destination from *)
(* any position around it                                                  *)

MoveOffsets == {-700, -320, -1, 0, 1, 320, 700}

InitMove ==
    /\ Quiet
    /\ \E id \in AllDrones, k \in {1, 4}, dlat \in MoveOffsets, dlng \in MoveOffsets :
         profiles = [d \in {id} |->
                        [NewProfile(id, 9000) EXCEPT
                            !.missionPhase = "flying",
                            !.missionStartTime = 0,
                            !.destination = k,
                            !.currentLocation =
                                [lat |-> destinations[k].lat + dlat,
                                 lng |-> destinations[k].lng + dlng]]]

\* this.moveTowardsDestination(profile, profile.destination); ticks counts
\* the steps that moved the drone
MoveStep ==
    /\ profiles' = [d \in DOMAIN profiles |->
                      [profiles[d] EXCEPT !.currentLocation =
                          moveTowardsDestination(profiles[d].currentLocation,
                                                 profiles[d].maxSpeed,
                                                 destinations[profiles[d].destination])]]
    /\ ticks' = IF profiles' # profiles THEN ticks + 1 ELSE ticks
    /\ UNCHANGED <<now, isRunning, interval, timers, simStates, registry,
                   starts, inflight, dbEmpty, posts, obs>>

\* a step moves the drone unless it is on its target
OffTarget ==
    \E d \in DOMAIN profiles :
       ~SamePlace(profiles[d].currentLocation, destinations[profiles[d].destination])

\* weak fairness of the step, with its enabling condition written out
MoveFairness == []<>(~OffTarget) \/ []<><<MoveStep>>_vars

SpecMove == InitMove /\ [][MoveStep]_vars /\ MoveFairness

----------------------------------------------------------------------------
(* The flight on its own: updateDroneState applied to a drone that is on   *)
(* its way from its base to a destination, at the start of the leg or near *)
(* its end, and then arrives, delivers and returns                         *)

\* no leg from a base to a destination has more steps than this
MaxLegSteps == 70

\* the destinations of the flights: the nearest and the farthest
FlightDestinations == {1, 4}

\* how near to the end of its leg, in units of 1e-5 degree, a flight begins
FlightWindow == 1200

\* the places of a drone that has made n steps of its flight to destination
\* k and is still flying: the base itself, and the places within FlightWindow
\* of the destination that are not within the arrival distance
FlightPlaces(id, k) ==
    LET base == Config(id).baseLocation
        dest == Point(destinations[k])
        place(n) == LegPosition(base, dest, n * DegreeStep999(Config(id).maxSpeed))
    IN  {base} \cup
        {place(n) : n \in {m \in 1..MaxLegSteps :
                             /\ ~LegCovered(base, dest,
                                            m * DegreeStep999(Config(id).maxSpeed))
                             /\ DistanceBelow(place(m), dest, FlightWindow)
                             /\ ~DistanceBelow(place(m), dest, 500)}}

InitFlight ==
    /\ Quiet
    /\ \E id \in AllDrones, k \in FlightDestinations :
         \E place \in FlightPlaces(id, k) :
            profiles = [d \in {id} |->
                           [NewProfile(id, 9000) EXCEPT
                               !.missionPhase = "flying",
                               !.missionStartTime = 0,
                               !.destination = k,
                               !.currentLocation = place]]

SpecFlight == InitFlight /\ [][MissionStep]_vars

----------------------------------------------------------------------------
(* One mission from its start to its end: a drone that has just left idle  *)
(* is stepped, with the draw below or above every threshold, until it is   *)
(* idle again. ticks counts the steps made in the current phase            *)

\* the nearest and the farthest destination
CompletionDestinations == {1, 4}

\* the draw that selects destination k
DrawOfDestination(k) == ((k - 1) * 1000) \div Len(destinations)

InitCompletion ==
    /\ Quiet
    /\ \E id \in AllDrones, k \in CompletionDestinations :
         profiles = [d \in {id} |->
                        IdleCase(NewProfile(id, 9000), 12, 0, DrawOfDestination(k), 0)]

\* the phases that only a draw ends
DrawPhases == {"preparing", "delivering"}

\* one updateDroneState call on a drone in mission, with draw r; of the draws
\* that keep a drone preparing or delivering at most MaxMissionTicks in a row
\* are explored
CompletionStep(r) ==
    /\ \A d \in DOMAIN profiles :
          /\ profiles[d].missionPhase # "idle"
          /\ (profiles[d].missionPhase \in DrawPhases /\ r = 999) =>
                ticks < MaxMissionTicks
    /\ profiles' = [d \in DOMAIN profiles |->
                      updateDroneState(profiles[d], 12, r, 0, now)]
    /\ ticks' = IF \A d \in DOMAIN profiles :
                     profiles'[d].missionPhase = profiles[d].missionPhase
                THEN ticks + 1 ELSE 0
    /\ UNCHANGED <<now, isRunning, interval, timers, simStates, registry,
                   starts, inflight, dbEmpty, posts, obs>>

\* a step with the draw above every threshold
UnluckyStep == CompletionStep(999)

\* a step with the draw below every threshold
LuckyStep == CompletionStep(0)

NextCompletion == UnluckyStep \/ LuckyStep

\* the states in which a step can be made: the drone is in mission
InMission == \A d \in DOMAIN profiles : profiles[d].missionPhase # "idle"

\* weak fairness of the step with the low draw, with its enabling condition
\* written out: the driver keeps ticking while the drone is in mission, and
\* the draws are fair, the low draw is not withheld for ever
StepFairness == []<>(~InMission) \/ []<><<LuckyStep>>_vars

SpecCompletion ==
    /\ InitCompletion
    /\ [][NextCompletion]_vars
    /\ StepFairness

----------------------------------------------------------------------------
(* The tick on its own: a running driver whose registry holds any mix of   *)
(* overrides, so that none, one or all of the drones are skipped           *)

\* the registry after POSTs for the drones of ds: an override that expires at
\* x[d], or no entry where x[d] is NoDuration
TickRegistry(x) ==
    [d \in {k \in DOMAIN x : x[k] # NoDuration} |-> InstalledEntry("Active", x[d])]

TickExpiries == {NoDuration, 0, 2}

\* the drones that an override may have been installed for
OverrideDrones == {"A1", "A2"}

\* the drones that may be on a mission
MissionDrones == {"A1", "A2"}

\* profiles of a driver that has been running: the drones that x marks are
\* delivering, the others are at base
RunningProfiles(x) ==
    [d \in AllDrones |-> IF d \in DOMAIN x /\ x[d]
                         THEN LongDelivery(d, 1, 4000)
                         ELSE NewProfile(d, 9030)]

Running ==
    /\ isRunning = TRUE
    /\ interval = 1
    /\ timers = {1}
    /\ simStates = "shared"
    /\ starts = <<>>
    /\ inflight = <<>>
    /\ dbEmpty = FALSE
    /\ posts = <<>>
    /\ ticks = 1
    /\ obs = NoObs

InitTick ==
    /\ Running
    /\ now \in {0, 1}
    /\ \E x \in [AllDrones -> TickExpiries] : registry = TickRegistry(x)
    /\ \E x \in [MissionDrones -> BOOLEAN] : profiles = RunningProfiles(x)

NextTick ==
    \/ TimerFire
    \/ InsertSettled
    \/ AdvanceTime

SpecTick == InitTick /\ [][NextTick]_vars

\* the same driver with the profile of one drone lost
InitFault ==
    /\ Running
    /\ now \in {0, 1}
    /\ \E x \in [OverrideDrones -> TickExpiries] : registry = TickRegistry(x)
    /\ \E lost \in AllDrones, x \in [MissionDrones -> BOOLEAN] :
         profiles = [d \in AllDrones |-> IF d = lost THEN MissingProfile
                                         ELSE RunningProfiles(x)[d]]

SpecFault == InitFault /\ [][NextTick]_vars

----------------------------------------------------------------------------
(* The running driver over several clock units, with no admin request: the *)
(* timer fires at least once in every unit (it fires every 20 seconds):   *)
(* every new unit leaves room for one more tick under the bound            *)

ResumeExpiries == {NoDuration, 0, 1}

InitResume ==
    /\ Running
    /\ now = 0
    /\ \E x \in [OverrideDrones -> ResumeExpiries] : registry = TickRegistry(x)
    /\ profiles = [d \in AllDrones |-> NewProfile(d, 9030)]

\* the clock reaches its next unit while the timer stays armed
NextPeriod ==
    /\ now < MaxTime
    /\ now' = now + 1
    /\ ticks' = MaxTicks - 1
    /\ obs' = NoObs
    /\ UNCHANGED <<isRunning, interval, timers, profiles, simStates, registry,
                   starts, inflight, dbEmpty, posts>>

NextResume ==
    \/ TimerFire
    \/ InsertSettled
    \/ NextPeriod

\* the states in which the timer's callback can run a tick
TimerCanFire ==
    /\ timers # {}
    /\ ticks < MaxTicks
    /\ Len(inflight) < MaxInflight

\* weak fairness of TimerFire, with its enabling condition written out: an
\* armed timer is not kept from firing for ever
TimerFairness ==
    \/ []<>(~TimerCanFire)
    \/ []<><<ticks' = ticks + 1>>_vars

SpecResume ==
    /\ InitResume
    /\ [][NextResume]_vars
    /\ TimerFairness
    /\ WF_vars(InsertSettled)
    /\ WF_vars(NextPeriod)

----------------------------------------------------------------------------
(* The POST handler on its own: requests arrive with any body, also with   *)
(* durations outside the 5 minutes to 1 hour the admin page offers         *)

\* durations of request bodies: none, 0, 10 minutes, 65 minutes
RequestDurations == {NoDuration, 0, 2, 13}

Requests ==
    [op : {"request"}, droneId : PostDrones, status : PostStatuses,
     duration : RequestDurations]

RequestPending == obs.op = "request"

\* a POST arrives; its body is what request.json() will return
RequestArrives ==
    /\ ~RequestPending
    /\ obs' \in Requests
    /\ UNCHANGED <<now, isRunning, interval, timers, profiles, simStates,
                   registry, starts, inflight, dbEmpty, posts, ticks>>

\* the handler runs on the body that arrived
RequestHandled ==
    /\ RequestPending
    /\ PostRequest(obs.droneId, obs.status, obs.duration)

InitPost == Constructed /\ dbEmpty = TRUE

NextPost ==
    \/ RequestArrives
    \/ RequestHandled
    \/ ~RequestPending /\ \E i \in 1..Len(posts) : AdminPostFound(i)
    \/ ~RequestPending /\ \E i \in 1..Len(posts) : AdminPostSaved(i)
    \/ ~RequestPending /\ AdminGet
    \/ ~RequestPending /\ RouteIsOverridden
    \/ ~RequestPending /\ AdvanceTime

SpecPost == InitPost /\ [][NextPost]_vars

----------------------------------------------------------------------------
(* The synthesizer of the POST handler on its own: the record it makes for *)
(* any status, any battery in the body and any last record of the drone    *)

\* battery values of request bodies: none, below 0, the ends of the range,
\* a usual value, above 100
SuppliedBatteries == {NoBattery, -500, 0, 5000, 10000, 15000}

\* what findOne returns: nothing, or the last record of the drone
LastRecords ==
    {NoRecord}
      \cup [battery : {1500, 9030}, lat : {-129210, -125000}, lng : {3682190, 3678330}]

\* lines 42-46 of POST: the record handed to new Telemetry(...); obs shows it
Synthesize ==
    /\ obs = NoObs
    /\ \E status \in SynthStatuses, battery \in SuppliedBatteries,
          lastTelemetry \in LastRecords,
          rs \in ExtremeDraws, ra \in ExtremeDraws, rl \in ExtremeDraws,
          rg \in ExtremeDraws :
         obs' = [op |-> "synthesized",
                 record |-> generateRealisticTelemetry(
                                "A1", status,
                                ContextBattery(battery, lastTelemetry),
                                ContextPosition(lastTelemetry), now, rs, ra, rl, rg)]
    /\ UNCHANGED <<now, isRunning, interval, timers, profiles, simStates,
                   registry, starts, inflight, dbEmpty, posts, ticks>>

SpecSynth == InitPost /\ [][Synthesize]_vars

----------------------------------------------------------------------------
(* Properties                                                              *)

\* the batch a tick step has handed to insertMany, <<>> when it wrote none
AppendedBatch ==
    IF Len(inflight') > Len(inflight) THEN inflight'[Len(inflight')] ELSE <<>>

\* C1: skip guarantee. In every tick, a drone for which the simulator's
\* override check reports "overridden" at that tick keeps its whole profile
\* (phase, location, battery, destination, mission start time) and gets no
\* record in the batch the tick appends.
C1_SkipGuarantee ==
    [][ticks' = ticks + 1 =>
         \A d \in DOMAIN profiles :
            SimCheck(simStates, registry, d, now).result =>
               /\ profiles'[d] = profiles[d]
               /\ \A k \in 1..Len(AppendedBatch) : AppendedBatch[k].droneId # d]_vars

\* a tick has run while A1 was under manual override: its batch, still awaiting
\* insertMany, has a record for A2 and none for A1
C1_Witness ==
    /\ "A1" \in DOMAIN registry
    /\ registry["A1"].manualOverride
    /\ \E i \in 1..Len(inflight) :
         /\ \E k \in 1..Len(inflight[i]) : inflight[i][k].droneId = "A2"
         /\ \A k \in 1..Len(inflight[i]) : inflight[i][k].droneId # "A1"

\* C2: an override installed with expiry T + D is reported by the override
\* check (the simulator's and the route's) at every time up to the expiry and
\* denied at every later time, the denial leaving the entry with its flag
\* false and its expiry removed.
C2_OverrideWindow ==
    \A d \in DOMAIN profiles :
       (d \in DOMAIN registry /\ registry[d].manualOverride) =>
          LET sim == SimCheck(simStates, registry, d, now)
              route == RouteCheck(registry, d, now)
          IN  IF now <= registry[d].overrideExpiry
              THEN sim.result /\ route.result
              ELSE /\ ~sim.result
                   /\ ~route.result
                   /\ sim.reg[d] = ClearedEntry(registry[d])
                   /\ route.reg[d] = ClearedEntry(registry[d])

\* a POST for drone d that installs its entry in this step
Installs(d) ==
    \E i \in 1..Len(posts) :
       /\ posts[i].at = "find"
       /\ posts[i].droneId = d
       /\ Len(posts') = Len(posts)
       /\ posts'[i].at = "save"

\* C3: idempotence of expiry. Once a drone's override has been cleared, every
\* step other than a new POST install for that drone (ticks, getStatus, admin
\* GET, the route's check, the passing of time) leaves the entry as it is, and
\* both checks keep answering false without touching it.
C3_ExpiryIdempotent ==
    [][\A d \in DOMAIN registry :
          (~registry[d].manualOverride /\ ~Installs(d)) =>
             /\ registry'[d] = registry[d]
             /\ ~SimCheck(simStates', registry', d, now').result
             /\ ~RouteCheck(registry', d, now').result
             /\ SimCheck(simStates', registry', d, now').reg = registry'
             /\ RouteCheck(registry', d, now').reg = registry']_vars

\* an override of A1 has expired and been cleared, and a tick has since written
\* A1's record again
C3_Witness ==
    /\ "A1" \in DOMAIN registry
    /\ ~registry["A1"].manualOverride
    /\ registry["A1"].overrideExpiry = Undefined
    /\ \E i \in 1..Len(inflight) :
         \E k \in 1..Len(inflight[i]) :
            /\ inflight[i][k].droneId = "A1"
            /\ inflight[i][k].timestamp >= 2

\* C4: after every step every drone's battery is within [15, 100].
C4_BatteryRange ==
    \A d \in DOMAIN profiles :
       /\ profiles[d].currentBattery >= 1500
       /\ profiles[d].currentBattery <= 10000

\* a drone whose delivery drained it to the floor has gone on to return
C4_Witness ==
    /\ ticks > 0
    /\ \E d \in DOMAIN profiles :
         /\ profiles[d].missionPhase = "returning"
         /\ profiles[d].currentBattery = 1500

\* the phase after each phase in the mission cycle
NextPhase(phase) ==
    CASE phase = "idle" -> "preparing"
      [] phase = "preparing" -> "flying"
      [] phase = "flying" -> "delivering"
      [] phase = "delivering" -> "returning"
      [] phase = "returning" -> "idle"

\* C5: in one step a drone's phase stays or moves to its immediate successor
\* in idle -> preparing -> flying -> delivering -> returning -> idle.
C5_PhaseCycle ==
    [][\A d \in DOMAIN profiles :
          \/ profiles'[d].missionPhase = profiles[d].missionPhase
          \/ profiles'[d].missionPhase = NextPhase(profiles[d].missionPhase)]_vars

\* a drone that started idle has arrived: idle, preparing, flying, delivering
C5_Witness ==
    /\ ticks = 3
    /\ \E d \in DOMAIN profiles :
         /\ profiles[d].missionPhase = "delivering"
         /\ profiles[d].currentBattery > 4000

\* C6: the destination and the mission start time are defined exactly while
\* the phase is preparing, flying, delivering or returning.
C6_DestinationIffMission ==
    \A d \in DOMAIN profiles :
       /\ (profiles[d].destination # NoDestination) <=> (profiles[d].missionPhase # "idle")
       /\ (profiles[d].missionStartTime # Undefined) <=> (profiles[d].missionPhase # "idle")

\* a drone is back at base after a mission, idle with nothing assigned
C6_Witness ==
    /\ ticks >= 2
    /\ \E d \in DOMAIN profiles :
         /\ profiles[d].missionPhase = "idle"
         /\ profiles[d].currentBattery = 1500
         /\ profiles[d].destination = NoDestination
         /\ profiles[d].missionStartTime = Undefined

\* C7: an idle drone goes to preparing exactly when the hour is within 8..18,
\* the draw is below 0.10 and the battery is above 50; it then has one of the
\* five destinations and its mission start time; otherwise it stays idle at
\* its place with battery min(100, battery + 0.3).
C7_IdleTransition ==
    \A d \in DOMAIN profiles :
       profiles[d].missionPhase = "idle" =>
          \A hour \in Hours, r \in Draws, rd \in DestinationDraws :
             LET p == profiles[d]
                 q == updateDroneState(p, hour, r, rd, now)
                 go == hour \in 8..18 /\ r < 100 /\ p.currentBattery > 5000
             IN  /\ (q.missionPhase = "preparing") <=> go
                 /\ go => /\ q.destination \in 1..5
                          /\ q.missionStartTime = now
                 /\ ~go => /\ q.missionPhase = "idle"
                           /\ q.currentBattery =
                                IF p.currentBattery + 30 > 10000
                                THEN 10000 ELSE p.currentBattery + 30
                           /\ q.destination = NoDestination
                 /\ q.currentLocation = p.currentLocation

\* an idle drone has taken a mission to the fifth site
C7_Witness ==
    /\ ticks = 1
    /\ \E d \in DOMAIN profiles :
         /\ profiles[d].missionPhase = "preparing"
         /\ profiles[d].destination = 5
         /\ profiles[d].missionStartTime = now
         /\ profiles[d].currentBattery = 5010

\* the drone's target in the motion specification
Target(d) == destinations[profiles[d].destination]

\* how far along its leg a drone is, in 1/999 of a unit of 1e-5 degree; a
\* drone on a grid point has not set out
Along(location) == IF OnLeg(location) THEN location.along ELSE 0

\* one coordinate after a step lies between where it was and the target
Between(before, after, target) ==
    \/ before <= after /\ after <= target
    \/ target <= after /\ after <= before

AtTarget == \A d \in DOMAIN profiles : SamePlace(profiles[d].currentLocation, Target(d))

\* C8: motion convergence. A step never increases the distance to the target
\* and never passes it (on the grid, and on the line itself: a drone on its
\* leg is farther along it than before and short of its end), a drone at
\* the target stays there, and repeated steps bring the drone exactly onto
\* the target.
C8_MotionConverges ==
    /\ [][\A d \in DOMAIN profiles :
             /\ DistanceSquared(profiles'[d].currentLocation, Target(d))
                  <= DistanceSquared(profiles[d].currentLocation, Target(d))
             /\ Between(profiles[d].currentLocation.lat,
                        profiles'[d].currentLocation.lat, Target(d).lat)
             /\ Between(profiles[d].currentLocation.lng,
                        profiles'[d].currentLocation.lng, Target(d).lng)
             /\ (OnLeg(profiles'[d].currentLocation) =>
                   /\ SamePlace(profiles'[d].currentLocation.to, Target(d))
                   /\ profiles'[d].currentLocation.along
                        > Along(profiles[d].currentLocation)
                   /\ ~LegCovered(profiles'[d].currentLocation.from,
                                  profiles'[d].currentLocation.to,
                                  profiles'[d].currentLocation.along))
             /\ (SamePlace(profiles[d].currentLocation, Target(d))
                   => profiles'[d].currentLocation = profiles[d].currentLocation)]_vars
    /\ <>[]AtTarget

\* a drone has reached its target in three or more steps
C8_Witness ==
    /\ ticks >= 3
    /\ AtTarget

\* C9: start() on a running driver is a no-op: no call is left in progress
\* (so no backfill, no second timer and no tick follow from it), and the step
\* changes neither the timers nor the profiles nor the appended batches.
C9_StartNoop ==
    [][(isRunning /\ (obs'.op = "startNoop" \/ Len(starts') > Len(starts))) =>
          /\ obs'.op = "startNoop"
          /\ UNCHANGED <<isRunning, interval, timers, starts, profiles,
                         simStates, registry, inflight, dbEmpty, ticks>>]_vars

\* start() has just returned at its first test on a running driver
C9_Witness ==
    /\ isRunning
    /\ obs.op = "startNoop"
    /\ timers = {interval}

\* C10: in every quiescent state (no start() in progress, no insert in
\* flight) a periodic timer is armed exactly when the driver is running, so
\* that after stop() no timer is left to start a tick.
C10_TimerIffRunning ==
    (starts = <<>> /\ inflight = <<>>) => ((timers # {}) <=> isRunning)

\* the drones the simulator's check does not report as overridden
Live == {d \in DOMAIN profiles : ~SimCheck(simStates, registry, d, now).result}

\* C11: a tick issues at most one append; its batch has exactly one record for
\* every drone that is not overridden at the tick and none for any other, each
\* record made from the drone's profile after its step in this tick; when
\* every drone is overridden the tick appends nothing.
C11_OneBatchPerTick ==
    [][ticks' = ticks + 1 =>
         /\ Len(inflight') <= Len(inflight) + 1
         /\ Len(AppendedBatch) = Cardinality(Live)
         /\ (Live = {}) => (inflight' = inflight)
         /\ \A k \in 1..Len(AppendedBatch) : AppendedBatch[k].droneId \in Live
         /\ \A d \in Live :
               \E k \in 1..Len(AppendedBatch) :
                  AppendedBatch[k] = TickRecord(profiles'[d], now)]_vars

\* a tick has run with all four drones under manual override and appended
\* nothing
C11_Witness ==
    /\ ticks = 2
    /\ inflight = <<>>
    /\ \A d \in AllDrones : d \in DOMAIN registry /\ registry[d].manualOverride

\* C12: cooperative tick scheduling. At most one append issued by the driver
\* is in flight at any time: no tick begins while the append of an earlier
\* tick has not settled.
C12_OneAppendInFlight == Len(inflight) <= 1

\* C13: the check-and-clear is atomic: in every reachable registry an entry
\* has manualOverride = true exactly when it has an expiry.
C13_FlagIffExpiry ==
    \A d \in DOMAIN registry :
       registry[d].manualOverride <=> (registry[d].overrideExpiry # Undefined)

\* A1's expired override has been cleared while a new POST for A1 awaits its
\* findOne
C13_Witness ==
    /\ "A1" \in DOMAIN registry
    /\ ~registry["A1"].manualOverride
    /\ registry["A1"].overrideExpiry = Undefined
    /\ \E i \in 1..Len(posts) : posts[i].droneId = "A1" /\ posts[i].at = "find"

\* C14: the settling of a tick's append, stored or failed, leaves the running
\* flag, the timer and the profiles as they are, and every tick that runs,
\* whatever became of the earlier appends, hands one more batch to the store.
C14_FailedAppendKeepsDriver ==
    [][/\ Len(inflight') < Len(inflight) =>
             UNCHANGED <<isRunning, interval, timers, profiles, ticks>>
       /\ ticks' # ticks => Len(inflight') = Len(inflight) + 1]_vars

\* nothing has ever been stored (the backfill and the first tick's append
\* failed), the driver is running with its timer, and the second tick's batch
\* is in flight (A1 flies no sooner than on its second step)
C14_Witness ==
    /\ dbEmpty
    /\ isRunning
    /\ timers = {interval}
    /\ ticks = 2
    /\ Len(inflight) = 1
    /\ inflight[1][1].droneId = "A1"
    /\ inflight[1][1].status = "In Flight"

\* C15: a start() whose connectDB fails ends in its catch: the step changes
\* neither the running flag nor the timers, appends nothing, and the call is
\* over; and when it leaves no timer armed (the driver is stopped), later
\* calls of start(), of which one gets its connection, bring the driver to
\* running with its timer armed. The tick of the start has room in the
\* exploration (ticks < MaxTicks, Len(inflight) < MaxInflight).
C15_FailedStartStaysStopped ==
    /\ [][obs'.op = "startFailed" =>
            /\ Len(starts') < Len(starts)
            /\ UNCHANGED <<isRunning, interval, timers, profiles, simStates,
                           inflight, dbEmpty, ticks>>]_vars
    /\ (/\ obs.op = "startFailed"
        /\ timers = {}
        /\ ticks < MaxTicks
        /\ Len(inflight) < MaxInflight) ~> (isRunning /\ interval \in timers)

\* the only start() so far has failed at connectDB
C15_Witness ==
    /\ obs.op = "startFailed"
    /\ ~isRunning
    /\ timers = {}
    /\ starts = <<>>
    /\ ticks = 0

Moves(i, a, b) ==
    /\ Len(starts') = Len(starts)
    /\ starts'[i] # starts[i]
    /\ starts[i].at = a
    /\ starts'[i].at = b

\* C17: backfill on cold start. A start() that finds no record begins a
\* backfill of 121 records per drone and none when it finds any; the backfill
\* is written in appends of at most 100 records; and all of it is written
\* before the first live tick: no tick runs while a backfill is unfinished,
\* other than the first tick of the call that has just finished its own.
C17_BackfillBeforeLive ==
    [][/\ \A i \in 1..Len(starts) :
             Moves(i, "count", "backfill") =>
                /\ dbEmpty
                /\ starts'[i].left = 121 * Cardinality(DOMAIN profiles)
       /\ \A i \in 1..Len(starts) :
             Moves(i, "backfill", "backfill") =>
                /\ starts'[i].left < starts[i].left
                /\ starts[i].left - starts'[i].left <= 100
       /\ ticks' = ticks + 1 =>
             \A i \in 1..Len(starts) :
                starts[i].at = "backfill" => starts' = RemoveAt(starts, i)]_vars

\* C18: in every driver state getStatus() reports manualOverride = true for a
\* drone exactly when the registry holds an override of it that has not
\* expired.
C18_StatusReportsOverride ==
    \A d \in DOMAIN profiles :
       (d \in StatusChecks(simStates, registry, now).overridden)
          <=> /\ d \in DOMAIN registry
              /\ registry[d].manualOverride
              /\ now <= registry[d].overrideExpiry

\* C19: a POST accepted at time T computes the expiry T + requested duration,
\* T + 5 minutes when the request has none, and the entry it installs has
\* manualOverride = true and that expiry, replacing any earlier entry of the
\* drone.
C19_PostInstallsRequestedExpiry ==
    [][/\ (RequestPending /\ Len(posts') > Len(posts)) =>
             posts'[Len(posts')].overrideExpiry =
                now + (IF obs.duration = NoDuration THEN 1 ELSE obs.duration)
       /\ \A i \in 1..Len(posts) :
             (Len(posts') = Len(posts) /\ posts[i].at = "find" /\ posts'[i].at = "save") =>
                /\ registry'[posts[i].droneId].manualOverride
                /\ registry'[posts[i].droneId].overrideExpiry = posts[i].overrideExpiry
                /\ registry'[posts[i].droneId].status = posts[i].status]_vars

\* C20: every override lasts between 5 minutes and 1 hour: the expiry a POST
\* computes for a request it accepts is at least 5 minutes and at most 1 hour
\* after the request, and every active entry carries such an expiry.
C20_OverrideLasts5To60Minutes ==
    [][Len(posts') > Len(posts) =>
         /\ posts'[Len(posts')].overrideExpiry >= now + 1
         /\ posts'[Len(posts')].overrideExpiry <= now + 12]_vars

\* C21: override expiry resumes simulation. With the driver running and no
\* new POST, the tick that finds a drone's override expired clears it,
\* advances the drone by one step and puts its record in the batch; no other
\* step ends an override; and every override is ended in this way.
C21_ExpiryResumesSimulation ==
    /\ [][\A d \in DOMAIN registry :
             /\ (ticks' = ticks + 1 /\ registry[d].manualOverride
                   /\ now > registry[d].overrideExpiry) =>
                   /\ ~registry'[d].manualOverride
                   /\ \E hour \in TickHours :
                         profiles'[d] \in StepOutcomes(profiles[d], hour, now)
                   /\ \E k \in 1..Len(AppendedBatch) :
                         AppendedBatch[k] = TickRecord(profiles'[d], now)
             /\ (registry[d].manualOverride /\ ~registry'[d].manualOverride) =>
                   (ticks' = ticks + 1 /\ now > registry[d].overrideExpiry)]_vars
    /\ \A d \in OverrideDrones :
          (d \in DOMAIN registry /\ registry[d].manualOverride)
             ~> (d \in DOMAIN registry /\ ~registry[d].manualOverride)

\* A2, overridden until time 1, has been taken up again by a tick at time 2
\* whose batch holds its record
C21_Witness ==
    /\ now = 2
    /\ "A2" \in DOMAIN registry
    /\ ~registry["A2"].manualOverride
    /\ \E i \in 1..Len(inflight) :
         \E k \in 1..Len(inflight[i]) :
            /\ inflight[i][k].droneId = "A2"
            /\ inflight[i][k].timestamp = 2

\* C22: a POST that answers with an error leaves the registry as it was and
\* stores no record. From an empty registry and an empty store: as long as no
\* save() has succeeded, every POST that has ended has answered 400 or 500, so
\* whenever no POST is in progress the registry is still empty.
C22_ErrorLeavesRegistry ==
    (dbEmpty /\ posts = <<>>) => registry = NoEntries

\* C23: every record the driver writes, live or historical, has battery and
\* humidity within 0..100, speed and altitude not negative, latitude within
\* -90..90 and longitude within -180..180.
C23_RecordInRange ==
    \A i \in 1..Len(inflight) :
       \A k \in 1..Len(inflight[i]) :
          LET rec == inflight[i][k]
          IN  /\ rec.battery >= 0 /\ rec.battery <= 10000
              /\ rec.humidity >= 0 /\ rec.humidity <= 1000
              /\ rec.speed >= 0
              /\ rec.altitude >= 0
              /\ rec.lat >= -9000000 /\ rec.lat <= 9000000
              /\ rec.lng >= -18000000 /\ rec.lng <= 18000000

\* the live record of B1 in flight at midnight with the lowest draws: the
\* lowest altitude and humidity the driver writes for a flying drone
C23_Witness ==
    /\ Len(inflight) = 1
    /\ inflight[1][1].droneId = "B1"
    /\ inflight[1][1].status = "In Flight"
    /\ inflight[1][1].altitude = 105
    /\ inflight[1][1].humidity = 440
    /\ inflight[1][1].speed = 480

\* C24: the record the POST handler synthesizes has battery within 0..100,
\* speed not negative and altitude not negative, whatever status and battery
\* the request carries and whatever the last record of the drone is.
C24_SynthesizerClamps ==
    obs.op = "synthesized" =>
       /\ obs.record.battery >= 0
       /\ obs.record.battery <= 10000
       /\ obs.record.speed >= 0
       /\ obs.record.altitude >= 0

\* C25: a flying step moves the drone along the line to its destination by
\* maxSpeed * (20/3600) / 111 degrees, which is maxSpeed * 5000 / 999 units
\* of 1e-5 degree, or onto the destination when that is no farther than the
\* step, and lowers the battery by decayRate * 0.8 (above the floor of 15);
\* the phase becomes delivering exactly when the distance after the move is
\* below 0.005 degrees or the draw is below 0.08. For maxSpeed 65 and a
\* destination 0.1 degrees away the drone is 65 * 5000 / 999 = 325.325 units
\* along the line after the step, so the distance has shrunk by just that.
C25_FlyingStep ==
    /\ LET dest == Point(destinations[1])
           from == [lat |-> dest.lat + 10000, lng |-> dest.lng]
           moved == moveTowardsDestination(from, 65, dest)
       IN  /\ DegreeStep999(65) = 325 * 999 + 325
           /\ OnLeg(moved)
           /\ moved.from = from /\ moved.to = dest
           /\ moved.along = DegreeStep999(65)
           /\ moved.lat = from.lat - 325 /\ moved.lng = from.lng
    /\ \A d \in DOMAIN profiles :
          (profiles[d].missionPhase = "flying"
             /\ profiles[d].destination # NoDestination) =>
             \A hour \in Hours, r \in Draws :
                LET p == profiles[d]
                    q == updateDroneState(p, hour, r, 0, now)
                    dest == destinations[p.destination]
                    here == p.currentLocation
                    there == q.currentLocation
                IN  /\ IF OnLeg(there)
                       THEN /\ SamePlace(there.to, dest)
                            /\ OnLeg(here) => /\ there.from = here.from
                                              /\ there.to = here.to
                            /\ ~OnLeg(here) => there.from = here
                            /\ there.along = Along(here) + p.maxSpeed * 5000
                            /\ ~LegCovered(there.from, there.to, there.along)
                            /\ Between(here.lat, there.lat, dest.lat)
                            /\ Between(here.lng, there.lng, dest.lng)
                       ELSE /\ SamePlace(there, dest)
                            /\ \/ SamePlace(here, dest)
                               \/ LegCovered(IF OnLeg(here) THEN here.from ELSE here,
                                             Point(dest),
                                             Along(here) + p.maxSpeed * 5000)
                    /\ q.currentBattery =
                         Max(1500, p.currentBattery - (p.batteryDecayRate * 8) \div 10)
                    /\ (q.missionPhase = "delivering")
                          <=> (DistanceBelow(there, dest, 500) \/ r < 80)
                    /\ q.missionPhase \in {"flying", "delivering"}
                    /\ q.destination = p.destination

\* a drone whose first flying step brought it from outside the arrival
\* distance to within it, short of the destination, is delivering
C25_Witness ==
    /\ ticks = 1
    /\ \E d \in DOMAIN profiles :
         /\ profiles[d].missionPhase = "delivering"
         /\ profiles[d].currentBattery < 9000
         /\ OnLeg(profiles[d].currentLocation)
         /\ DistanceBelow(profiles[d].currentLocation, Target(d), 500)
         /\ ~DistanceBelow(profiles[d].currentLocation, Target(d), 300)

\* C26: an idle drone is exactly at its base; the step from returning to
\* idle puts it there and clears destination and mission start time; an idle
\* step does not move it; and no step changes a drone's base location or its
\* static configuration.
C26_IdleAtBase ==
    /\ [](\A d \in DOMAIN profiles :
             profiles[d].missionPhase = "idle" =>
                profiles[d].currentLocation = Config(d).baseLocation)
    /\ [][\A d \in DOMAIN profiles :
             /\ (profiles[d].missionPhase = "returning"
                   /\ profiles'[d].missionPhase = "idle") =>
                   /\ profiles'[d].currentLocation = profiles[d].baseLocation
                   /\ profiles'[d].destination = NoDestination
                   /\ profiles'[d].missionStartTime = Undefined
             /\ profiles[d].missionPhase = "idle" =>
                   profiles'[d].currentLocation = profiles[d].currentLocation
             /\ profiles'[d].id = d
             /\ profiles'[d].baseLocation = Config(d).baseLocation
             /\ profiles'[d].batteryDecayRate = Config(d).batteryDecayRate
             /\ profiles'[d].maxSpeed = Config(d).maxSpeed
             /\ profiles'[d].operatingAltitude = Config(d).operatingAltitude]_vars

\* a drone that was near a destination, far from its base, is idle at the
\* base after five steps
C26_Witness ==
    /\ ticks = 5
    /\ \E d \in DOMAIN profiles :
         /\ profiles[d].missionPhase = "idle"
         /\ profiles[d].currentLocation = Config(d).baseLocation
         /\ profiles[d].destination = NoDestination
         /\ profiles[d].currentBattery < 9000

\* C27: under every interleaving of start() and stop() at most one periodic
\* timer is armed, at most one backfill is under way, and a stopped driver
\* has no timer armed.
C27_SingleTimerSingleBackfill ==
    /\ Cardinality(timers) <= 1
    /\ Cardinality({i \in 1..Len(starts) : starts[i].at = "backfill"}) <= 1
    /\ ~isRunning => timers = {}

\* this step hands records to the store: a tick issues its insertMany, or a
\* start() issues an insertMany of its backfill
IssuesAppend ==
    \/ Len(inflight') > Len(inflight)
    \/ \E i \in 1..Len(starts) :
          Moves(i, "count", "backfill") \/ Moves(i, "backfill", "backfill")

\* C28: once stop() has returned the driver hands no record to the store
\* until start() is called again: no step that follows a stop() which found
\* the driver not running (a start() may be in progress), and no step of a
\* stopped driver with no start() in progress, issues an append.
C28_NoAppendAfterStop ==
    [][(obs.op = "stopNoop" \/ (~isRunning /\ starts = <<>>)) => ~IssuesAppend]_vars

\* C29: best-effort emission. The settling of an append, failed or stored,
\* leaves every profile as the tick advanced it and touches no other batch;
\* a tick hands over one batch that holds nothing but the records of its own
\* step, at most one per drone, whatever became of the earlier batches.
C29_FailedAppendNotRetried ==
    [][/\ Len(inflight') < Len(inflight) =>
             /\ profiles' = profiles
             /\ \E i \in 1..Len(inflight) : inflight' = RemoveAt(inflight, i)
       /\ ticks' = ticks + 1 =>
             /\ SubSeq(inflight', 1, Len(inflight)) = inflight
             /\ Len(AppendedBatch) <= Cardinality(DOMAIN profiles)
             /\ \A k \in 1..Len(AppendedBatch) :
                   AppendedBatch[k] =
                      TickRecord(profiles'[AppendedBatch[k].droneId], now)]_vars

\* the backfill and the appends of both ticks have failed (nothing is stored,
\* nothing is in flight), and the profile has kept both of its steps
C29_Witness ==
    /\ dbEmpty
    /\ isRunning
    /\ ticks = 2
    /\ inflight = <<>>
    /\ starts = <<>>
    /\ profiles["A1"].missionPhase = "flying"

\* where a drone in mission is heading: its destination while flying, its
\* base while returning
Heading(p) ==
    IF p.missionPhase = "returning" THEN p.baseLocation
    ELSE destinations[p.destination]

\* C30: mission completion. Every drone that has left idle is idle again
\* later; and flying and returning end within a bounded number of steps
\* whatever the draws are: every step that leaves the drone in the phase
\* takes it one step length, maxSpeed * 5000 / 999 units, along its leg,
\* forward while flying and back while returning, so that it has made no
\* more steps in the phase than the leg from base to destination has step
\* lengths.
C30_MissionCompletes ==
    /\ InMission ~> (\A d \in DOMAIN profiles : profiles[d].missionPhase = "idle")
    /\ [][\A d \in DOMAIN profiles :
             (profiles[d].missionPhase \in {"flying", "returning"}
                /\ profiles'[d].missionPhase = profiles[d].missionPhase) =>
                /\ OnLeg(profiles'[d].currentLocation)
                /\ profiles'[d].currentLocation.from = profiles[d].baseLocation
                /\ SamePlace(profiles'[d].currentLocation.to,
                             destinations[profiles[d].destination])
                /\ profiles'[d].currentLocation.along =
                      IF profiles[d].missionPhase = "flying"
                      THEN Along(profiles[d].currentLocation)
                              + profiles[d].maxSpeed * 5000
                      ELSE Along(profiles[d].currentLocation)
                              - profiles[d].maxSpeed * 5000
                /\ profiles'[d].currentLocation.along > 0
                /\ DistanceSquared(profiles'[d].currentLocation, Heading(profiles[d]))
                     < DistanceSquared(profiles[d].currentLocation,
                                       Heading(profiles[d]))]_vars
    /\ [](\A d \in DOMAIN profiles :
             profiles[d].missionPhase \in {"flying", "returning"} =>
                \/ ticks = 0
                \/ ~LegCovered(profiles[d].baseLocation,
                               Point(destinations[profiles[d].destination]),
                               ticks * profiles[d].maxSpeed * 5000))

\* B1 is idle at its base again after flying to the farthest destination and
\* back with so little help from the draws that its battery, 90 at the
\* start, is down at the floor
C30_Witness ==
    /\ "B1" \in DOMAIN profiles
    /\ profiles["B1"].missionPhase = "idle"
    /\ profiles["B1"].currentLocation = Config("B1").baseLocation
    /\ profiles["B1"].destination = NoDestination
    /\ profiles["B1"].currentBattery = 1500

====
